---- MODULE Spec2Model ----
(***************************************************************************)
(* A model of the @truffle/codec result format (format/values.ts,          *)
(* format/errors.ts) and of the decode procedure that builds Results from  *)
(* raw words: elementary scalars, enums, contracts, structs and external   *)
(* function pointers.                                                      *)
(*                                                                         *)
(* Words are scaled down: a word is WordBytes bytes of ByteBase values     *)
(* each (32 bytes of 256 values in the EVM).  Hex strings are modelled as  *)
(* the big-endian tuple of the bytes they spell, decimal strings by        *)
(* ToString.                                                               *)
(***************************************************************************)
EXTENDS Integers, Sequences, FiniteSets, TLC

VARIABLES dataType, pointer, state, info, result, invocations,
          ethpmJson, published, db, projects, signer, adapters,
          abstraction, provisioned

vars ==
    <<dataType, pointer, state, info, result, invocations, ethpmJson, published, db,
      projects, signer, adapters, abstraction, provisioned>>

\* the state of the codec and the state of the packages around it
codecVars == <<dataType, pointer, state, info, result, invocations>>

packageVars == <<ethpmJson, published>>

dbVars == <<db, projects>>

tezosVars == <<signer, adapters>>

provisionVars == <<abstraction, provisioned>>

outsideCodec == <<packageVars, dbVars, tezosVars, provisionVars>>

outsidePackage == <<codecVars, dbVars, tezosVars, provisionVars>>

outsideDb == <<codecVars, packageVars, tezosVars, provisionVars>>

outsideTezos == <<codecVars, packageVars, dbVars, provisionVars>>

outsideProvision == <<codecVars, packageVars, dbVars, tezosVars>>

---------------------------------------------------------------------------
(* Bounds of the model *)

\* a byte holds one of 0 .. ByteBase-1
ByteBase == 3

\* the number of bytes of a word
WordBytes == 3

---------------------------------------------------------------------------
(* Words, bytes and their conversions *)

RECURSIVE Pow(_)
Pow(n) == IF n = 0 THEN 1 ELSE ByteBase * Pow(n - 1)

Word == 0 .. (Pow(WordBytes) - 1)

Byte == 0 .. (ByteBase - 1)

\* the hex string of the n low bytes of w, most significant byte first
ToHexString(w, n) == [i \in 1 .. n |-> (w \div Pow(n - i)) % ByteBase]

\* a slip: the sign of a negative number is lost in its decimal string
ToDecimalString_WithoutSign(n) == ToString(IF n < 0 THEN 0 - n ELSE n)

\* the decimal string of a number
ToDecimalString(n) == ToString(n)

---------------------------------------------------------------------------
(* Type descriptors (format/types.ts, read-only input of the decoder) *)

UintType(bits) == [typeClass |-> "uint", bits |-> bits]

IntType(bits) == [typeClass |-> "int", bits |-> bits]

BoolType == [typeClass |-> "bool"]

BytesTypeStatic(length) == [typeClass |-> "bytes", kind |-> "static", length |-> length]

AddressType == [typeClass |-> "address"]

UfixedType(bits, places) == [typeClass |-> "ufixed", bits |-> bits, places |-> places]

FixedType(bits, places) == [typeClass |-> "fixed", bits |-> bits, places |-> places]

EnumType(id) == [typeClass |-> "enum", id |-> id]

ContractType(id) == [typeClass |-> "contract", id |-> id]

StructType(id, memberTypes) ==
    [typeClass |-> "struct", id |-> id, memberTypes |-> memberTypes]

FunctionExternalType == [typeClass |-> "function", visibility |-> "external"]

FunctionInternalType == [typeClass |-> "function", visibility |-> "internal"]

\* a dynamic-length array
ArrayType(baseType) == [typeClass |-> "array", kind |-> "dynamic", baseType |-> baseType]

StringType == [typeClass |-> "string"]

BytesTypeDynamic == [typeClass |-> "bytes", kind |-> "dynamic"]

MappingType(keyType, valueType) ==
    [typeClass |-> "mapping", keyType |-> keyType, valueType |-> valueType]

\* the members of the enums of the compilation, by id
EnumOptions(id) ==
    CASE id = "Choice" -> <<"Yes", "No">>
      [] id = "Single" -> <<"Only">>
      [] OTHER -> <<>>

\* every id of a user-defined type of the compilation
AllTypeIds == {"Choice", "Single", "Account", "Holder", "Inner"}

---------------------------------------------------------------------------
(* SECTION 7 of errors.ts: generic errors *)

UserDefinedTypeNotFoundError(type) ==
    [kind |-> "UserDefinedTypeNotFoundError", type |-> type]

\* IndexedReferenceTypeError without the raw topic word
IndexedReferenceTypeError_WithoutRaw(type, raw) ==
    [kind |-> "IndexedReferenceTypeError", type |-> type]

IndexedReferenceTypeError(type, raw) ==
    [kind |-> "IndexedReferenceTypeError", type |-> type, raw |-> raw]

UnsupportedConstantError(definition) ==
    [kind |-> "UnsupportedConstantError", definition |-> definition]

ReadErrorStack(from, to) == [kind |-> "ReadErrorStack", from |-> from, to |-> to]

BytesLocation == {"memory", "calldata", "eventdata", "returndata", "code"}

ReadErrorBytes(location, start, length) ==
    [kind |-> "ReadErrorBytes", location |-> location, start |-> start,
     length |-> length]

\* a slip: the storage read error loses its range
ReadErrorStorage_WithoutRange(range) == [kind |-> "ReadErrorStorage"]

ReadErrorStorage(range) == [kind |-> "ReadErrorStorage", range |-> range]

UnusedImmutableError == [kind |-> "UnusedImmutableError"]

\* the kinds of ReadError
ReadError ==
    {"UnsupportedConstantError", "ReadErrorStack", "ReadErrorBytes",
     "ReadErrorStorage", "UnusedImmutableError"}

\* the kinds of GenericError
GenericError ==
    {"UserDefinedTypeNotFoundError", "IndexedReferenceTypeError"} \cup ReadError

\* the kinds of DynamicDataImplementationError
DynamicDataImplementationError ==
    {"OverlongArraysAndStringsNotImplementedError",
     "OverlargePointersNotImplementedError"}

\* LengthIntegerFields[C["integerType"]]
LengthIntegerFields(integerType, length) ==
    IF integerType = "BN" THEN [lengthAsBN |-> length]
    ELSE [lengthAsString |-> ToDecimalString(length)]

\* PointerIntegerFields[C["integerType"]]
PointerIntegerFields(integerType, offset) ==
    IF integerType = "BN" THEN [pointerAsBN |-> offset]
    ELSE [pointerAsString |-> ToDecimalString(offset)]

\* a slip: the length is cut to the bytes a number can hold
OverlongArraysAndStringsNotImplementedError_Truncated(integerType, length) ==
    [kind |-> "OverlongArraysAndStringsNotImplementedError"]
        @@ LengthIntegerFields(integerType, length % Pow(WordBytes - 1))

\* error for an array, string or bytestring longer than a number can hold
OverlongArraysAndStringsNotImplementedError(integerType, length) ==
    [kind |-> "OverlongArraysAndStringsNotImplementedError"]
        @@ LengthIntegerFields(integerType, length)

\* error for a pointer bigger than a number can hold; the base fields hold
\* pointerAsBN whatever the integer type is
OverlargePointersNotImplementedError(integerType, offset) ==
    [kind |-> "OverlargePointersNotImplementedError", pointerAsBN |-> offset]
        @@ PointerIntegerFields(integerType, offset)

\* SECTION 8 of errors.ts: internal-use errors
\* error for the stricter length check in strict mode
OverlongArrayOrStringStrictModeError(integerType, length, dataLength) ==
    [kind |-> "OverlongArrayOrStringStrictModeError", dataLength |-> dataLength]
        @@ LengthIntegerFields(integerType, length)

InternalFunctionInABIError == [kind |-> "InternalFunctionInABIError"]

\* a slip: the strict-mode length error left out of the internal-use errors
InternalUseError_WithoutStrictMode == {"InternalFunctionInABIError"}

InternalUseError ==
    {"OverlongArrayOrStringStrictModeError", "InternalFunctionInABIError"}

\* a slip: read errors left out of the errors that are thrown to the core
ErrorForThrowing_WithoutReadError == {"UserDefinedTypeNotFoundError"}

\* the kinds of error a component outside the decoder core throws to it
ErrorForThrowing == {"UserDefinedTypeNotFoundError"} \cup ReadError

---------------------------------------------------------------------------
(* SECTIONS 2 and 3 of errors.ts: errors of the elementary types *)

\* the raw integer of an error, in the configured representation
RawIntegerFields(integerType, raw) ==
    IF integerType = "BN"
    THEN [rawAsBN |-> raw]
    ELSE [rawAsString |-> ToDecimalString(raw)]

\* a slip: the padding error of an unsigned integer takes the kind of the signed one
UintPaddingError_AsInt(raw, paddingType) ==
    [kind |-> "IntPaddingError", raw |-> raw, paddingType |-> paddingType]

UintPaddingError(raw, paddingType) ==
    [kind |-> "UintPaddingError", raw |-> raw, paddingType |-> paddingType]

IntPaddingError(raw, paddingType) ==
    [kind |-> "IntPaddingError", raw |-> raw, paddingType |-> paddingType]

\* a slip: the raw value is carried as a BN whatever representation is configured
BoolOutOfRangeError_AlwaysBN(integerType, raw) ==
    [kind |-> "BoolOutOfRangeError", rawAsBN |-> raw]

\* a slip: a bool out of range is reported as a padding fault of the word
BoolOutOfRangeError_AsPadding(integerType, raw) ==
    [kind |-> "BoolPaddingError", raw |-> ToHexString(raw, WordBytes),
     paddingType |-> "left"]

BoolOutOfRangeError(integerType, raw) ==
    [kind |-> "BoolOutOfRangeError"] @@ RawIntegerFields(integerType, raw)

BoolPaddingError(raw, paddingType) ==
    [kind |-> "BoolPaddingError", raw |-> raw, paddingType |-> paddingType]

BytesPaddingError(raw, paddingType) ==
    [kind |-> "BytesPaddingError", raw |-> raw, paddingType |-> paddingType]

AddressPaddingError(raw, paddingType) ==
    [kind |-> "AddressPaddingError", raw |-> raw, paddingType |-> paddingType]

FixedPaddingError(raw, paddingType) ==
    [kind |-> "FixedPaddingError", raw |-> raw, paddingType |-> paddingType]

UfixedPaddingError(raw, paddingType) ==
    [kind |-> "UfixedPaddingError", raw |-> raw, paddingType |-> paddingType]

\* a slip: the out-of-range error loses the enum type
EnumOutOfRangeError_WithoutType(integerType, type, raw) ==
    [kind |-> "EnumOutOfRangeError"] @@ RawIntegerFields(integerType, raw)

EnumOutOfRangeError(integerType, type, raw) ==
    [kind |-> "EnumOutOfRangeError", type |-> type]
        @@ RawIntegerFields(integerType, raw)

EnumPaddingError(raw, type, paddingType) ==
    [kind |-> "EnumPaddingError", raw |-> raw, type |-> type,
     paddingType |-> paddingType]

\* a slip: the not-found error takes the kind of the out-of-range error
EnumNotFoundDecodingError_AsOutOfRange(integerType, type, raw) ==
    [kind |-> "EnumOutOfRangeError", type |-> type]
        @@ RawIntegerFields(integerType, raw)

EnumNotFoundDecodingError(integerType, type, raw) ==
    [kind |-> "EnumNotFoundDecodingError", type |-> type]
        @@ RawIntegerFields(integerType, raw)

ContractPaddingError(raw, paddingType) ==
    [kind |-> "ContractPaddingError", raw |-> raw, paddingType |-> paddingType]

---------------------------------------------------------------------------
(* SECTION 5 of errors.ts: errors of external function pointers *)

FunctionExternalNonStackPaddingError(raw, paddingType) ==
    [kind |-> "FunctionExternalNonStackPaddingError", raw |-> raw,
     paddingType |-> paddingType]

FunctionExternalStackPaddingError(rawAddress, rawSelector) ==
    [kind |-> "FunctionExternalStackPaddingError", rawAddress |-> rawAddress,
     rawSelector |-> rawSelector]

---------------------------------------------------------------------------
(* SECTION 6 of errors.ts: errors of internal function pointers *)

FunctionInternalPaddingError(raw, paddingType) ==
    [kind |-> "FunctionInternalPaddingError", raw |-> raw, paddingType |-> paddingType]

NoSuchInternalFunctionError(context, deployedPc, constructorPc) ==
    [kind |-> "NoSuchInternalFunctionError", context |-> context,
     deployedProgramCounter |-> deployedPc,
     constructorProgramCounter |-> constructorPc]

DeployedFunctionInConstructorError(context, deployedPc, constructorPc) ==
    [kind |-> "DeployedFunctionInConstructorError", context |-> context,
     deployedProgramCounter |-> deployedPc,
     constructorProgramCounter |-> constructorPc]

\* a slip: the malformed pair is reported as a function that was not found
MalformedInternalFunctionError_AsNoSuch(context, deployedPc, constructorPc) ==
    [kind |-> "NoSuchInternalFunctionError", context |-> context,
     deployedProgramCounter |-> deployedPc,
     constructorProgramCounter |-> constructorPc]

MalformedInternalFunctionError(context, deployedPc, constructorPc) ==
    [kind |-> "MalformedInternalFunctionError", context |-> context,
     deployedProgramCounter |-> deployedPc,
     constructorProgramCounter |-> constructorPc]

---------------------------------------------------------------------------
(* The error kinds each XErrorResult admits in its error field *)

UintError == {"UintPaddingError"}

IntError == {"IntPaddingError"}

BoolError == {"BoolOutOfRangeError", "BoolPaddingError"}

BytesStaticError == {"BytesPaddingError"}

AddressError == {"AddressPaddingError"}

FixedError == {"FixedPaddingError"}

UfixedError == {"UfixedPaddingError"}

\* a slip: the not-found error left out of the enum's errors
EnumError_WithoutNotFound == {"EnumOutOfRangeError", "EnumPaddingError"}

EnumError == {"EnumOutOfRangeError", "EnumPaddingError", "EnumNotFoundDecodingError"}

ContractError == {"ContractPaddingError"}

StructError == DynamicDataImplementationError

FunctionExternalError ==
    {"FunctionExternalNonStackPaddingError", "FunctionExternalStackPaddingError"}

FunctionInternalError ==
    {"FunctionInternalPaddingError", "NoSuchInternalFunctionError",
     "DeployedFunctionInConstructorError", "MalformedInternalFunctionError"}

\* a mapping-specific error (there are none)
MappingError == {}

BytesDynamicError == DynamicDataImplementationError

StringError == DynamicDataImplementationError

ArrayError == DynamicDataImplementationError

\* the category-specific errors of a type
CategoryError(type) ==
    CASE type.typeClass = "uint" -> UintError
      [] type.typeClass = "int" -> IntError
      [] type.typeClass = "bool" -> BoolError
      [] type.typeClass = "bytes" ->
            IF type.kind = "dynamic" THEN BytesDynamicError ELSE BytesStaticError
      [] type.typeClass = "string" -> StringError
      [] type.typeClass = "array" -> ArrayError
      [] type.typeClass = "address" -> AddressError
      [] type.typeClass = "fixed" -> FixedError
      [] type.typeClass = "ufixed" -> UfixedError
      [] type.typeClass = "enum" -> EnumError
      [] type.typeClass = "contract" -> ContractError
      [] type.typeClass = "struct" -> StructError
      [] type.typeClass = "mapping" -> MappingError
      [] type.typeClass = "function" ->
            IF type.visibility = "internal" THEN FunctionInternalError
            ELSE FunctionExternalError
      [] OTHER -> {}

\* XErrorResult: error: GenericError | XError
ErrorResultAdmits(type, kind) == kind \in GenericError \cup CategoryError(type)

\* a slip: the error result forgets the type it was decoding
ErrorResult_WithoutType(type, error) == [kind |-> "error", error |-> error]

\* an ErrorResult: the type that was being decoded, kind "error", one error
ErrorResult(type, error) == [type |-> type, kind |-> "error", error |-> error]

\* a Value: the type that was decoded, kind "value", the decoded value
Value(type, value) == [type |-> type, kind |-> "value", value |-> value]

---------------------------------------------------------------------------
(* Values of the elementary types (format/elementary.ts) *)

\* an integer in the configured representation
IntegerFields(integerType, n) ==
    IF integerType = "BN" THEN [asBN |-> n] ELSE [asString |-> ToDecimalString(n)]

\* the member of an enum and its ordinal in the configured representation
EnumFields(integerType, name, n) ==
    IF integerType = "BN"
    THEN [name |-> name, numericAsBN |-> n]
    ELSE [name |-> name, numericAsString |-> ToDecimalString(n)]

ContractValueInfoKnown(address, class) ==
    [kind |-> "known", address |-> address, class |-> class]

ContractValueInfoUnknown(address) == [kind |-> "unknown", address |-> address]

\* a string of valid UTF-8, as the bytes it is made of
StringValueInfoValid(asString) == [kind |-> "valid", asString |-> asString]

\* a bytestring of dynamic length, as hex
BytesDynamicValueInfo(asHex) == [asHex |-> asHex]

---------------------------------------------------------------------------
(* SECTION 5 of values.ts: external function pointers *)

FunctionExternalValueInfoKnown(contract, selector, abi) ==
    [kind |-> "known", contract |-> contract, selector |-> selector, abi |-> abi]

\* a slip: the value of an unresolved selector drops the selector
FunctionExternalValueInfoInvalid_WithoutSelector(contract, selector) ==
    [kind |-> "invalid", contract |-> contract]

FunctionExternalValueInfoInvalid(contract, selector) ==
    [kind |-> "invalid", contract |-> contract, selector |-> selector]

\* a slip: a pointer into no known contract is reported as invalid
FunctionExternalValueInfoUnknown_AsInvalid(contract, selector) ==
    [kind |-> "invalid", contract |-> contract, selector |-> selector]

FunctionExternalValueInfoUnknown(contract, selector) ==
    [kind |-> "unknown", contract |-> contract, selector |-> selector]

---------------------------------------------------------------------------
(* SECTION 6 of values.ts: internal function pointers *)

\* an actual function: entry is what the jump-destination table holds for it
FunctionInternalValueInfoKnown(context, deployedPc, constructorPc, entry) ==
    [kind |-> "function", context |-> context,
     deployedProgramCounter |-> deployedPc,
     constructorProgramCounter |-> constructorPc,
     name |-> entry.name, definedIn |-> entry.definedIn, id |-> entry.id]

\* a slip: the default value is reported as undecodable in this context
FunctionInternalValueInfoException_AsUnknown(context, deployedPc, constructorPc) ==
    [kind |-> "unknown", context |-> context,
     deployedProgramCounter |-> deployedPc,
     constructorProgramCounter |-> constructorPc]

\* a default value: both program counters zero, or both nonzero
FunctionInternalValueInfoException(context, deployedPc, constructorPc) ==
    [kind |-> "exception", context |-> context,
     deployedProgramCounter |-> deployedPc,
     constructorProgramCounter |-> constructorPc]

\* a slip: the value of an undecodable context loses the context
FunctionInternalValueInfoUnknown_WithoutContext(context, deployedPc, constructorPc) ==
    [kind |-> "unknown", deployedProgramCounter |-> deployedPc,
     constructorProgramCounter |-> constructorPc]

\* decoding internal functions is not supported in this context
FunctionInternalValueInfoUnknown(context, deployedPc, constructorPc) ==
    [kind |-> "unknown", context |-> context,
     deployedProgramCounter |-> deployedPc,
     constructorProgramCounter |-> constructorPc]

---------------------------------------------------------------------------
(* SECTION 4 of values.ts: containers *)

\* a slip: the decoded value is stored as the key and the key as the value
KeyValuePair_Swapped(key, value) == [key |-> value, value |-> key]

\* a pair of a mapping: the key must be a value, not an error
KeyValuePair(key, value) == [key |-> key, value |-> value]

\* a mapping value: its key/value pairs, which may contain errors
MappingValue(type, value) == [type |-> type, kind |-> "value", value |-> value]

\* an array value: its elements, which may contain errors
ArrayValue(type, value) == [type |-> type, kind |-> "value", value |-> value]

NameValuePair(name, value) == [name |-> name, value |-> value]

\* a slip: an error among the fields turns the struct itself into that error
StructValue_Escalating(type, value) ==
    IF \E i \in DOMAIN value : value[i].value.kind = "error"
    THEN [type |-> type, kind |-> "error",
          error |-> value[CHOOSE i \in DOMAIN value :
                             value[i].value.kind = "error"].value.error]
    ELSE [type |-> type, kind |-> "value", value |-> value]

\* a slip: mapping-typed members are left out of the members of a struct
StructValue_WithoutMappings(type, value) ==
    [type |-> type, kind |-> "value",
     value |-> SelectSeq(value, LAMBDA pair : pair.value.type.typeClass # "mapping")]

\* a struct value: its fields in declaration order, each a Result
StructValue(type, value) == [type |-> type, kind |-> "value", value |-> value]

---------------------------------------------------------------------------
(* Padding *)

\* the number of bytes of a word that hold the value of an elementary type
ByteSize(type) ==
    CASE type.typeClass \in {"uint", "int", "fixed", "ufixed"} -> type.bits \div 8
      [] type.typeClass = "bytes" -> type.length
      [] OTHER -> 1

\* which side of the word the padding of a type is on, and how it is filled
PaddingTypeOf(type) ==
    CASE type.typeClass \in {"int", "fixed"} -> "signed"
      [] type.typeClass = "bytes" -> "right"
      [] OTHER -> "left"

\* the bytes of w that hold the value of a type of n bytes
RemovePadding(w, paddingType, n) ==
    IF paddingType = "right" THEN w \div Pow(WordBytes - n) ELSE w % Pow(n)

\* the bytes of w outside the value of a type of n bytes
PaddingOf(w, paddingType, n) ==
    IF paddingType = "right" THEN w % Pow(WordBytes - n) ELSE w \div Pow(n)

\* the sign of an n-byte two's complement number
IsNegative(raw, n) == 2 * raw >= Pow(n)

\* the number an n-byte two's complement pattern stands for
ToSigned(raw, n) == IF IsNegative(raw, n) THEN raw - Pow(n) ELSE raw

\* padding is validated only in a mode that checks it
CheckPadding(w, paddingType, n, paddingMode) ==
    \/ paddingMode = "permissive"
    \/ PaddingOf(w, paddingType, n) =
          IF paddingType = "signed" /\ IsNegative(RemovePadding(w, paddingType, n), n)
          THEN Pow(WordBytes - n) - 1
          ELSE 0

---------------------------------------------------------------------------
(* The byte-read capability *)

Locations == BytesLocation \cup {"stack", "storage", "definition", "nowhere"}

\* the span of storage a datum of length bytes at (slot, index) occupies
StorageRange(slot, index, length) ==
    [from |-> [slot |-> slot, index |-> index],
     to |-> [slot |-> slot + ((index + length - 1) \div WordBytes),
             index |-> (index + length - 1) % WordBytes]]

\* the read error of a pointer whose bytes cannot be obtained
ReadErrorOf(ptr) ==
    CASE ptr.location = "stack" ->
            ReadErrorStack(ptr.start, ptr.start + ptr.length - 1)
      [] ptr.location \in BytesLocation ->
            ReadErrorBytes(ptr.location, ptr.start * WordBytes,
                           ptr.length * WordBytes)
      [] ptr.location = "storage" ->
            ReadErrorStorage(StorageRange(ptr.start, 0, ptr.length * WordBytes))
      [] ptr.location = "definition" -> UnsupportedConstantError(ptr.start)
      [] OTHER -> UnusedImmutableError

\* read(pointer, state): the words of the pointer, or a thrown read error
Read(ptr, st) ==
    IF /\ ptr.location # "nowhere"
       /\ \A i \in ptr.start .. (ptr.start + ptr.length - 1) :
             i \in DOMAIN st /\ st[i].readable
    THEN [thrown |-> FALSE,
          words |-> [i \in 1 .. ptr.length |-> st[ptr.start + i - 1].word]]
    ELSE [thrown |-> TRUE, error |-> ReadErrorOf(ptr)]

\* an error thrown to the decoder core becomes the error of the node
HandleDecodingError(type, error) == ErrorResult(type, error)

---------------------------------------------------------------------------
(* The decode procedure: elementary types *)

\* the contract at an address, by the registry of known contracts
DecodeContract(address, inf) ==
    IF address \in DOMAIN inf.contracts
    THEN ContractValueInfoKnown(ToHexString(address, 1),
                                ContractType(inf.contracts[address].id))
    ELSE ContractValueInfoUnknown(ToHexString(address, 1))

\* the padding error of the category of an elementary type
PaddingError(type, w) ==
    LET raw == ToHexString(w, WordBytes)
        paddingType == PaddingTypeOf(type)
    IN  CASE type.typeClass = "uint" -> UintPaddingError(raw, paddingType)
          [] type.typeClass = "int" -> IntPaddingError(raw, paddingType)
          [] type.typeClass = "bool" -> BoolPaddingError(raw, paddingType)
          [] type.typeClass = "bytes" -> BytesPaddingError(raw, paddingType)
          [] type.typeClass = "address" -> AddressPaddingError(raw, paddingType)
          [] type.typeClass = "fixed" -> FixedPaddingError(raw, paddingType)
          [] type.typeClass = "ufixed" -> UfixedPaddingError(raw, paddingType)
          [] type.typeClass = "enum" -> EnumPaddingError(raw, type, paddingType)
          [] OTHER -> ContractPaddingError(raw, paddingType)

\* the scalar a well-padded word stands for
InterpretBasic(type, w, inf) ==
    LET n == ByteSize(type)
        numeric == RemovePadding(w, PaddingTypeOf(type), n)
    IN  CASE type.typeClass = "uint" ->
                Value(type, IntegerFields(inf.integerType, numeric))
          [] type.typeClass = "int" ->
                Value(type, IntegerFields(inf.integerType, ToSigned(numeric, n)))
          [] type.typeClass = "bool" ->
                IF numeric = 0 THEN Value(type, [asBoolean |-> FALSE])
                ELSE IF numeric = 1 THEN Value(type, [asBoolean |-> TRUE])
                ELSE ErrorResult(type, BoolOutOfRangeError(inf.integerType, numeric))
          [] type.typeClass = "bytes" ->
                Value(type, [asHex |-> ToHexString(numeric, n)])
          [] type.typeClass = "address" ->
                Value(type, [asAddress |-> ToHexString(numeric, n)])
          [] type.typeClass = "ufixed" ->
                Value(type, [asBig |-> [unscaled |-> numeric, places |-> type.places]])
          [] type.typeClass = "fixed" ->
                Value(type, [asBig |-> [unscaled |-> ToSigned(numeric, n),
                                        places |-> type.places]])
          [] type.typeClass = "enum" ->
                IF numeric < Len(EnumOptions(type.id))
                THEN Value(type, EnumFields(inf.integerType,
                                            EnumOptions(type.id)[numeric + 1], numeric))
                ELSE ErrorResult(type,
                                 EnumOutOfRangeError(inf.integerType, type, numeric))
          [] OTHER -> Value(type, DecodeContract(numeric, inf))

\* decodeBasic: read the word, look the enum up, validate the padding, interpret
DecodeBasic(type, ptr, st, inf) ==
    LET r == Read(ptr, st)
    IN  IF r.thrown THEN HandleDecodingError(type, r.error)
        ELSE LET w == r.words[1]
             IN  IF type.typeClass = "enum" /\ type.id \notin inf.userDefinedTypes
                 THEN ErrorResult(type,
                                  EnumNotFoundDecodingError(inf.integerType, type, w))
                 ELSE IF ~CheckPadding(w, PaddingTypeOf(type), ByteSize(type),
                                       inf.paddingMode)
                 THEN ErrorResult(type, PaddingError(type, w))
                 ELSE InterpretBasic(type, w, inf)

---------------------------------------------------------------------------
(* The decode procedure: external function pointers *)

\* the function entry of a contract's ABI
FunctionEntry(selector) == [type |-> "function", selector |-> selector]

\* decodeExternalFunction: the three-way resolution of address and selector
DecodeExternalFunction(address, selector, inf) ==
    LET contract == DecodeContract(address, inf)
        hex == ToHexString(selector, 1)
    IN  IF contract.kind = "unknown"
        THEN FunctionExternalValueInfoUnknown(contract, hex)
        ELSE IF selector \notin inf.contracts[address].selectors
        THEN FunctionExternalValueInfoInvalid(contract, hex)
        ELSE FunctionExternalValueInfoKnown(contract, hex, FunctionEntry(hex))

\* an external function pointer: two words on the stack, one packed word elsewhere
DecodeFunctionExternal(type, ptr, st, inf) ==
    LET r == Read(ptr, st)
    IN  IF r.thrown THEN HandleDecodingError(type, r.error)
        ELSE IF ptr.location = "stack"
        THEN LET address == r.words[1]
                 selector == r.words[2]
             IN  IF ~ /\ CheckPadding(address, "left", 1, inf.paddingMode)
                      /\ CheckPadding(selector, "left", 1, inf.paddingMode)
                 THEN ErrorResult(type,
                         FunctionExternalStackPaddingError(
                             ToHexString(address, WordBytes),
                             ToHexString(selector, WordBytes)))
                 ELSE Value(type,
                         DecodeExternalFunction(RemovePadding(address, "left", 1),
                                                RemovePadding(selector, "left", 1),
                                                inf))
        ELSE LET w == r.words[1]
                 packed == RemovePadding(w, "right", 2)
             IN  IF ~CheckPadding(w, "right", 2, inf.paddingMode)
                 THEN ErrorResult(type,
                         FunctionExternalNonStackPaddingError(
                             ToHexString(w, WordBytes), "right"))
                 ELSE Value(type,
                         DecodeExternalFunction(packed \div ByteBase,
                                                packed % ByteBase, inf))

---------------------------------------------------------------------------
(* The decode procedure: internal function pointers *)

\* strict mode: the mode of a decode of ABI-typed data that must not guess
IsStrict(inf) == "strictAbiMode" \in DOMAIN inf /\ inf.strictAbiMode

\* a decode that an internal-use error has stopped: the error is in flight to
\* the caller of the engine and is no node of a tree
StopDecoding(error) == [kind |-> "stopped", error |-> error]

\* an error thrown in strict mode: an internal-use error stops the decode,
\* any other is the error of the node as it is outside strict mode
ThrowInStrictMode(type, error) ==
    IF error.kind \in InternalUseError THEN StopDecoding(error)
    ELSE HandleDecodingError(type, error)

\* the number of bytes of the data a pointer is read from
DataLength(st) == Len(st) * WordBytes

\* the two default values: both program counters zero (storage), both nonzero
\* (elsewhere)
DefaultPairs == {<<0, 0>>, <<ByteBase - 1, ByteBase - 1>>}

\* decodeInternalFunction: the program counter pair against the jump table
DecodeInternalFunction(type, deployedPc, constructorPc, inf) ==
    LET context == ContractType(inf.currentContext.id)
        table == inf.internalFunctionsTable
    IN  IF ~table.available
        THEN Value(type, FunctionInternalValueInfoUnknown(context, deployedPc,
                                                          constructorPc))
        ELSE IF <<deployedPc, constructorPc>> \in DefaultPairs
        THEN Value(type, FunctionInternalValueInfoException(context, deployedPc,
                                                            constructorPc))
        ELSE IF deployedPc \in DOMAIN table.entries
        THEN Value(type, FunctionInternalValueInfoKnown(context, deployedPc,
                            constructorPc, table.entries[deployedPc]))
        ELSE IF deployedPc = 0 /\ constructorPc # 0
        THEN ErrorResult(type, MalformedInternalFunctionError(context, deployedPc,
                                                              constructorPc))
        ELSE IF inf.currentContext.isConstructor /\ constructorPc = 0
        THEN ErrorResult(type, DeployedFunctionInConstructorError(context,
                                    deployedPc, constructorPc))
        ELSE ErrorResult(type, NoSuchInternalFunctionError(context, deployedPc,
                                                           constructorPc))

\* an internal function pointer: the constructor PC and the deployed PC, one
\* byte each, at the low end of a word; in strict mode the data is ABI-typed
\* and holds no such pointer
DecodeFunctionInternal(type, ptr, st, inf) ==
    LET r == Read(ptr, st)
    IN  IF IsStrict(inf) THEN ThrowInStrictMode(type, InternalFunctionInABIError)
        ELSE IF r.thrown THEN HandleDecodingError(type, r.error)
        ELSE LET w == r.words[1]
                 packed == RemovePadding(w, "left", 2)
             IN  IF ~CheckPadding(w, "left", 2, inf.paddingMode)
                 THEN ErrorResult(type,
                         FunctionInternalPaddingError(ToHexString(w, WordBytes),
                                                      "left"))
                 ELSE DecodeInternalFunction(type, packed % ByteBase,
                                             packed \div ByteBase, inf)

---------------------------------------------------------------------------
(* The decode procedure: containers *)

\* the number of words a datum of a type occupies
RECURSIVE WordSize(_)
WordSize(type) ==
    IF type.typeClass = "struct"
    THEN LET RECURSIVE Sum(_)
             Sum(i) == IF i = 0 THEN 0
                       ELSE Sum(i - 1) + WordSize(type.memberTypes[i].type)
         IN  Sum(Len(type.memberTypes))
    ELSE 1

\* the word at which member i of a struct starts, relative to the struct
RECURSIVE MemberOffset(_, _)
MemberOffset(type, i) ==
    IF i = 1 THEN 0
    ELSE MemberOffset(type, i - 1) + WordSize(type.memberTypes[i - 1].type)

RECURSIVE Decode(_, _, _, _)

\* decodeStruct: each member decodes on its own and the results are assembled
DecodeStruct(type, ptr, st, inf) ==
    IF type.id \notin inf.userDefinedTypes
    THEN HandleDecodingError(type, UserDefinedTypeNotFoundError(type))
    ELSE StructValue(type,
            [i \in 1 .. Len(type.memberTypes) |->
                NameValuePair(type.memberTypes[i].name,
                    Decode(type.memberTypes[i].type,
                           [location |-> ptr.location,
                            start |-> ptr.start + MemberOffset(type, i),
                            length |-> WordSize(type.memberTypes[i].type)],
                           st, inf))])

\* the number a key value encodes, whichever representation it is held in
EncodeMappingKey(key, inf) ==
    IF inf.integerType = "BN" THEN key.value.asBN
    ELSE CHOOSE n \in Byte : ToDecimalString(n) = key.value.asString

\* the storage slot of the value of a key: the slots after the mapping's own,
\* one per key (the hash of key and base slot in the EVM)
MappingValueSlot(baseSlot, key, inf) == baseSlot + 1 + EncodeMappingKey(key, inf)

\* decode of a mapping: the known keys are taken as they are and the value of
\* each is decoded from its slot; outside storage a mapping is empty
DecodeMapping(type, ptr, st, inf) ==
    IF ptr.location # "storage" THEN MappingValue(type, <<>>)
    ELSE MappingValue(type,
            [j \in 1 .. Len(inf.mappingKeys) |->
                KeyValuePair(inf.mappingKeys[j],
                    Decode(type.valueType,
                           [location |-> "storage",
                            start |-> MappingValueSlot(ptr.start, inf.mappingKeys[j],
                                                       inf),
                            length |-> WordSize(type.valueType)],
                           st, inf))])

\* the largest length or pointer a number holds (a word holds more)
MaxSafeInteger == Pow(WordBytes - 1) - 1

\* a type whose data is of dynamic size
RECURSIVE IsDynamic(_)
IsDynamic(type) ==
    CASE type.typeClass \in {"array", "string"} -> TRUE
      [] type.typeClass = "bytes" -> type.kind = "dynamic"
      [] type.typeClass = "struct" ->
            \E i \in DOMAIN type.memberTypes : IsDynamic(type.memberTypes[i].type)
      [] OTHER -> FALSE

\* a datum that its location holds a pointer to
ByReference(type, ptr) ==
    CASE type.typeClass = "struct" -> IsDynamic(type) /\ ptr.location = "calldata"
      [] OTHER -> IsDynamic(type)

\* byte k of the bytes that a sequence of words spells
ByteOfWords(words, k) ==
    ToHexString(words[((k - 1) \div WordBytes) + 1], WordBytes)[((k - 1) % WordBytes) + 1]

\* an array, string or bytestring at its length word: the length is checked
\* before any of the data is looked at, in strict mode against the length of
\* the data first
DecodeLengthPrefixed(type, ptr, st, inf) ==
    LET r == Read(ptr, st)
        length == r.words[1]
    IN  IF r.thrown THEN HandleDecodingError(type, r.error)
        ELSE IF IsStrict(inf) /\ length > DataLength(st)
        THEN ThrowInStrictMode(type,
                OverlongArrayOrStringStrictModeError(inf.integerType, length,
                                                     DataLength(st)))
        ELSE IF length > MaxSafeInteger
        THEN ErrorResult(type,
                OverlongArraysAndStringsNotImplementedError(inf.integerType, length))
        ELSE IF type.typeClass = "array"
        THEN ArrayValue(type,
                [i \in 1 .. length |->
                    Decode(type.baseType,
                           [location |-> ptr.location, start |-> ptr.start + i,
                            length |-> 1],
                           st, inf)])
        ELSE LET data == Read([location |-> ptr.location, start |-> ptr.start + 1,
                               length |-> (length + WordBytes - 1) \div WordBytes],
                              st)
                 bytes == [k \in 1 .. length |-> ByteOfWords(data.words, k)]
             IN  IF data.thrown THEN HandleDecodingError(type, data.error)
                 ELSE IF type.typeClass = "string"
                 THEN Value(type, StringValueInfoValid(bytes))
                 ELSE Value(type, BytesDynamicValueInfo(bytes))

\* a datum held by reference: the pointer is read and checked, then the datum
\* is decoded where it points (offsets count words from the start of the data)
DecodeReference(type, ptr, st, inf) ==
    LET r == Read([location |-> ptr.location, start |-> ptr.start, length |-> 1], st)
        offset == r.words[1]
    IN  IF r.thrown THEN HandleDecodingError(type, r.error)
        ELSE IF offset > MaxSafeInteger
        THEN ErrorResult(type,
                OverlargePointersNotImplementedError(inf.integerType, offset))
        ELSE IF type.typeClass = "struct"
        THEN DecodeStruct(type,
                          [location |-> ptr.location, start |-> offset,
                           length |-> WordSize(type)],
                          st, inf)
        ELSE DecodeLengthPrefixed(type,
                                  [location |-> ptr.location, start |-> offset,
                                   length |-> 1],
                                  st, inf)

\* decode(type, location) -> Result
Decode(type, ptr, st, inf) ==
    CASE ByReference(type, ptr) -> DecodeReference(type, ptr, st, inf)
      [] type.typeClass = "struct" /\ ~ByReference(type, ptr) ->
            DecodeStruct(type, ptr, st, inf)
      [] type.typeClass = "mapping" -> DecodeMapping(type, ptr, st, inf)
      [] type.typeClass = "function" /\ type.visibility = "external" ->
            DecodeFunctionExternal(type, ptr, st, inf)
      [] type.typeClass = "function" /\ type.visibility = "internal" ->
            DecodeFunctionInternal(type, ptr, st, inf)
      [] OTHER -> DecodeBasic(type, ptr, st, inf)

---------------------------------------------------------------------------
(* The inputs the decoder is run on *)

ElementaryTypes ==
    {UintType(8), UintType(16), IntType(8), BoolType, BytesTypeStatic(1),
     AddressType, UfixedType(8, 1), FixedType(8, 1)}

EnumTypes == {EnumType("Choice"), EnumType("Single")}

AccountType ==
    StructType("Account",
               <<[name |-> "flag", type |-> BoolType],
                 [name |-> "balance", type |-> UintType(8)],
                 [name |-> "choice", type |-> EnumType("Choice")]>>)

InnerType ==
    StructType("Inner",
               <<[name |-> "amount", type |-> UintType(8)],
                 [name |-> "choice", type |-> EnumType("Single")]>>)

HolderType ==
    StructType("Holder",
               <<[name |-> "owner", type |-> AddressType],
                 [name |-> "inner", type |-> InnerType]>>)

StructTypes == {AccountType, HolderType}

\* a cell of the state a pointer is read from: a word, or one no read obtains
Cell(w) == [readable |-> TRUE, word |-> w]

UnreadableCell == [readable |-> FALSE, word |-> 0]

Cells == {Cell(w) : w \in Word} \cup {UnreadableCell}

\* the words with a zero padding byte, and one word with a nonzero one
SampleCells == {Cell(w) : w \in 0 .. ByteBase} \cup {UnreadableCell}

IntegerTypes == {"BN", "string"}

PaddingModes == {"default", "permissive"}

\* the sets of user-defined types whose definitions the decoder is given
TypeIdSets ==
    {AllTypeIds, AllTypeIds \ {"Choice", "Single"}, AllTypeIds \ {"Inner"}, {}}

\* the contracts a registry may hold at an address
KnownContracts ==
    {[id |-> "Token", selectors |-> {}], [id |-> "Token", selectors |-> {1}],
     [id |-> "Vault", selectors |-> {0, 1}]}

\* the registries of known contracts, by address
Registries == UNION {[d -> KnownContracts] : d \in SUBSET (1 .. 2)}

NoContracts == [a \in {} |-> [id |-> "Token", selectors |-> {}]]

Info(integerType, paddingMode, userDefinedTypes, contracts) ==
    [integerType |-> integerType, paddingMode |-> paddingMode,
     userDefinedTypes |-> userDefinedTypes, contracts |-> contracts]

Pointer(location, length) == [location |-> location, start |-> 1, length |-> length]

NoResult == [kind |-> "none"]

---------------------------------------------------------------------------
(* The state machine: one action per decode request *)

\* an ethpm.json that is the empty object
NoFields == [field \in {} |-> ""]

\* no call of Package.publish has settled
NotPublished == [kind |-> "none"]

\* the databases a project may be initialized in
DbNames == {"main", "other"}

\* the TezosAdapter objects of a session
Adapter == {"first", "second"}

\* the value of a field or variable that was never assigned
Undefined == [kind |-> "undefined"]

\* an adapter whose constructor has not run
NotConstructed == [constructed |-> FALSE]

\* the top-level decodes that may be in flight at once
Invocation == 1 .. 2

\* an invocation that has not been made
Idle == [phase |-> "idle"]

\* a contract abstraction on which nothing has been set, with its adapter
NewAbstraction(tezos, web3) ==
    [provider |-> Undefined, network_id |-> Undefined, networkType |-> Undefined,
     ens |-> Undefined,
     class_defaults |-> [from |-> Undefined, gas |-> Undefined, gasPrice |-> Undefined],
     interfaceAdapter |-> [tezos |-> tezos, web3 |-> web3, wallet |-> Undefined]]

\* provision has not been called on the abstraction
NotProvisioned == [outcome |-> "none"]

Init ==
    /\ dataType = [typeClass |-> "none"]
    /\ pointer = Pointer("nowhere", 0)
    /\ state = <<>>
    /\ info = Info("BN", "default", {}, NoContracts)
    /\ result = NoResult
    /\ invocations = [k \in Invocation |-> Idle]
    /\ ethpmJson = NoFields
    /\ published = NotPublished
    /\ db = [name \in DbNames |-> {}]
    /\ projects = <<>>
    /\ signer = Undefined
    /\ adapters = [a \in Adapter |-> NotConstructed]
    /\ abstraction = NewAbstraction(FALSE, FALSE)
    /\ provisioned = NotProvisioned

\* a top-level decode of a type at a pointer: the result is what decode returns
Request(type, ptr, st, inf) ==
    /\ dataType' = type
    /\ pointer' = ptr
    /\ state' = st
    /\ info' = inf
    /\ result' = Decode(type, ptr, st, inf)
    /\ UNCHANGED <<invocations, outsideCodec>>

DecodeElementaryRequest ==
    /\ result = NoResult
    /\ \E type \in ElementaryTypes, location \in Locations, cell \in Cells,
          integerType \in IntegerTypes, paddingMode \in PaddingModes :
          Request(type, Pointer(location, 1), <<cell>>,
                  Info(integerType, paddingMode, AllTypeIds, NoContracts))

DecodeEnumRequest ==
    /\ result = NoResult
    /\ \E type \in EnumTypes, location \in {"storage", "memory", "stack"},
          cell \in Cells, integerType \in IntegerTypes,
          paddingMode \in PaddingModes, ids \in {AllTypeIds, {}} :
          Request(type, Pointer(location, 1), <<cell>>,
                  Info(integerType, paddingMode, ids, NoContracts))

DecodeContractRequest ==
    /\ result = NoResult
    /\ \E location \in {"storage", "calldata"}, cell \in Cells,
          paddingMode \in PaddingModes, contracts \in Registries :
          Request(ContractType("Token"), Pointer(location, 1), <<cell>>,
                  Info("BN", paddingMode, AllTypeIds, contracts))

DecodeStructRequest ==
    /\ result = NoResult
    /\ \E type \in StructTypes, location \in {"storage", "memory"},
          st \in [1 .. 3 -> SampleCells], integerType \in IntegerTypes,
          paddingMode \in PaddingModes, ids \in TypeIdSets :
          Request(type, Pointer(location, 3), st,
                  Info(integerType, paddingMode, ids, NoContracts))

DecodeFunctionExternalRequest ==
    /\ result = NoResult
    /\ \E paddingMode \in PaddingModes, contracts \in Registries :
          \/ \E location \in {"memory", "storage"}, cell \in Cells :
                Request(FunctionExternalType, Pointer(location, 1), <<cell>>,
                        Info("BN", paddingMode, AllTypeIds, contracts))
          \/ \E st \in [1 .. 2 -> SampleCells] :
                Request(FunctionExternalType, Pointer("stack", 2), st,
                        Info("BN", paddingMode, AllTypeIds, contracts))

\* one word of the state changes and the same request is decoded again
Redecode ==
    /\ result # NoResult
    /\ dataType.typeClass = "struct"
    /\ \E i \in DOMAIN state, cell \in SampleCells :
          /\ cell # state[i]
          /\ Request(dataType, pointer, [state EXCEPT ![i] = cell], info)

Next ==
    \/ DecodeElementaryRequest
    \/ DecodeEnumRequest
    \/ DecodeContractRequest
    \/ DecodeStructRequest
    \/ DecodeFunctionExternalRequest
    \/ Redecode

Spec == Init /\ [][Next]_vars

---------------------------------------------------------------------------
(* Decode sessions of internal function pointers *)

\* what the jump-destination table holds for a function
InternalFunctionEntry(name, definedIn, id) ==
    [name |-> name, definedIn |-> definedIn, id |-> id]

\* definedIn of a free function
NoDefiningContract == [typeClass |-> "null"]

NoEntries == [pc \in {} |-> InternalFunctionEntry("", NoDefiningContract, "")]

\* the jump-destination tables of the environment: none at all, an empty one,
\* and tables with a method and with a free function
InternalFunctionsTables ==
    {[available |-> FALSE, entries |-> NoEntries],
     [available |-> TRUE, entries |-> NoEntries],
     [available |-> TRUE,
      entries |-> [pc \in {1} |->
                     InternalFunctionEntry("run", ContractType("Token"), "Token.run")]],
     [available |-> TRUE,
      entries |-> [pc \in {1, ByteBase - 1} |->
                     IF pc = 1
                     THEN InternalFunctionEntry("run", ContractType("Token"),
                                                "Token.run")
                     ELSE InternalFunctionEntry("free", NoDefiningContract, "free")]]}

\* the contract context a decode runs in
Contexts == [id : {"Token"}, isConstructor : BOOLEAN]

InfoInternal(paddingMode, currentContext, internalFunctionsTable) ==
    [integerType |-> "BN", paddingMode |-> paddingMode,
     userDefinedTypes |-> AllTypeIds, contracts |-> NoContracts,
     currentContext |-> currentContext,
     internalFunctionsTable |-> internalFunctionsTable]

DecodeFunctionInternalRequest ==
    /\ result = NoResult
    /\ \E location \in {"storage", "memory", "stack"}, cell \in Cells,
          paddingMode \in PaddingModes, currentContext \in Contexts,
          table \in InternalFunctionsTables :
          Request(FunctionInternalType, Pointer(location, 1), <<cell>>,
                  InfoInternal(paddingMode, currentContext, table))

NextFunctionInternal == DecodeFunctionInternalRequest

SpecFunctionInternal == Init /\ [][NextFunctionInternal]_vars

---------------------------------------------------------------------------
(* Decode sessions of mappings and of structs that hold a mapping *)

BalancesType == MappingType(UintType(8), EnumType("Choice"))

LedgerType ==
    StructType("Ledger",
               <<[name |-> "total", type |-> UintType(8)],
                 [name |-> "balances", type |-> BalancesType]>>)

\* the keys a session knows of a mapping, as decoded elementary values
KeyValue(integerType, n) == Value(UintType(8), IntegerFields(integerType, n))

MappingKeys(integerType) ==
    {<<>>, <<KeyValue(integerType, 0)>>, <<KeyValue(integerType, 1)>>,
     <<KeyValue(integerType, 0), KeyValue(integerType, 1)>>,
     <<KeyValue(integerType, 1), KeyValue(integerType, 0)>>}

InfoStorage(integerType, paddingMode, userDefinedTypes, mappingKeys) ==
    [integerType |-> integerType, paddingMode |-> paddingMode,
     userDefinedTypes |-> userDefinedTypes, contracts |-> NoContracts,
     mappingKeys |-> mappingKeys]

\* the type definitions a session of these requests may lack
LedgerTypeIdSets == {{"Ledger", "Choice"}, {"Ledger"}, {"Choice"}}

\* a mapping at slot 1: the values of keys 0 and 1 are at slots 2 and 3
DecodeMappingRequest ==
    /\ result = NoResult
    /\ \E values \in [1 .. 2 -> SampleCells], integerType \in IntegerTypes,
          paddingMode \in PaddingModes, ids \in LedgerTypeIdSets :
          \E mappingKeys \in MappingKeys(integerType) :
             Request(BalancesType, Pointer("storage", 1), <<Cell(0)>> \o values,
                     InfoStorage(integerType, paddingMode, ids, mappingKeys))

\* a struct whose last member is a mapping, in storage (members at slots 1
\* and 2, the values of the mapping after them) and outside storage
DecodeLedgerRequest ==
    /\ result = NoResult
    /\ \E total \in SampleCells, integerType \in IntegerTypes,
          paddingMode \in PaddingModes, ids \in LedgerTypeIdSets :
          \E mappingKeys \in MappingKeys(integerType) :
             \/ \E values \in [1 .. 2 -> SampleCells] :
                   Request(LedgerType, Pointer("storage", 2),
                           <<total, Cell(0)>> \o values,
                           InfoStorage(integerType, paddingMode, ids, mappingKeys))
             \/ \E location \in {"memory", "calldata"} :
                   Request(LedgerType, Pointer(location, 1), <<total>>,
                           InfoStorage(integerType, paddingMode, ids, mappingKeys))

NextMapping == DecodeMappingRequest \/ DecodeLedgerRequest

SpecMapping == Init /\ [][NextMapping]_vars

---------------------------------------------------------------------------
(* Decode sessions of data of dynamic size *)

\* a struct of dynamic size: its text is held by reference
NoteType ==
    StructType("Note",
               <<[name |-> "id", type |-> UintType(8)],
                 [name |-> "text", type |-> StringType]>>)

\* the words a length is drawn from: short ones, the largest a number holds,
\* the smallest and the largest it does not hold, and one that cannot be read
LengthCells ==
    {Cell(n) : n \in {0, 1, 2, MaxSafeInteger, MaxSafeInteger + 1, Pow(WordBytes) - 1}}
        \cup {UnreadableCell}

\* the words a pointer is drawn from: the offset of the datum, and as above
PointerCells(offset) ==
    {Cell(n) : n \in {offset, MaxSafeInteger, MaxSafeInteger + 1, Pow(WordBytes) - 1}}
        \cup {UnreadableCell}

ReferenceLocations == {"calldata", "memory"}

InfoDynamic(integerType, userDefinedTypes) ==
    Info(integerType, "default", userDefinedTypes, NoContracts)

\* an array of uint8: the pointer, then the length and two elements
DecodeArrayRequest ==
    /\ result = NoResult
    /\ \E location \in ReferenceLocations, offset \in PointerCells(2),
          length \in LengthCells, elements \in [1 .. 2 -> SampleCells],
          integerType \in IntegerTypes :
          Request(ArrayType(UintType(8)), Pointer(location, 1),
                  <<offset, length>> \o elements, InfoDynamic(integerType, {}))

\* a string or a bytestring: the pointer, then the length and one word of bytes
DecodeStringRequest ==
    /\ result = NoResult
    /\ \E type \in {StringType, BytesTypeDynamic}, location \in ReferenceLocations,
          offset \in PointerCells(2), length \in LengthCells, data \in Cells,
          integerType \in IntegerTypes :
          Request(type, Pointer(location, 1), <<offset, length, data>>,
                  InfoDynamic(integerType, {}))

\* a struct of dynamic size in calldata: the pointer, then the id and the
\* pointer of the text, then the length and the bytes of the text
DecodeNoteRequest ==
    /\ result = NoResult
    /\ \E offset \in PointerCells(2), id \in SampleCells, text \in PointerCells(4),
          length \in LengthCells, data \in SampleCells,
          integerType \in IntegerTypes, ids \in {{"Note"}, {}} :
          Request(NoteType, Pointer("calldata", 1), <<offset, id, text, length, data>>,
                  InfoDynamic(integerType, ids))

NextDynamic == DecodeArrayRequest \/ DecodeStringRequest \/ DecodeNoteRequest

SpecDynamic == Init /\ [][NextDynamic]_vars

---------------------------------------------------------------------------
(* Decode sessions of the elementary types, of fixed and of dynamic size *)

NextElementary ==
    \/ DecodeElementaryRequest
    \/ DecodeEnumRequest
    \/ DecodeContractRequest
    \/ DecodeStringRequest

SpecElementary == Init /\ [][NextElementary]_vars

---------------------------------------------------------------------------
(* The nodes of the decoded tree, each with the type and pointer it was     *)
(* decoded from                                                            *)

MemberPointer(type, ptr, i) ==
    [location |-> ptr.location, start |-> ptr.start + MemberOffset(type, i),
     length |-> WordSize(type.memberTypes[i].type)]

RECURSIVE Visits(_, _, _)
Visits(type, ptr, r) ==
    LET here == <<[type |-> type, ptr |-> ptr, result |-> r]>>
        RECURSIVE Below(_)
        Below(i) ==
            IF i = 0 THEN <<>>
            ELSE Below(i - 1) \o Visits(type.memberTypes[i].type,
                                         MemberPointer(type, ptr, i),
                                         r.value[i].value)
    IN  IF type.typeClass = "struct" /\ r.kind = "value"
        THEN here \o Below(Len(type.memberTypes))
        ELSE here

TreeVisits == IF result = NoResult THEN <<>> ELSE Visits(dataType, pointer, result)

IsLeaf(v) == v.type.typeClass # "struct"

\* some word of the node cannot be read
ReadFails(v) ==
    \/ v.ptr.location = "nowhere"
    \/ \E i \in v.ptr.start .. (v.ptr.start + v.ptr.length - 1) : ~state[i].readable

\* the definition of the node's struct type is not available
TypeMissing(v) ==
    v.type.typeClass = "struct" /\ v.type.id \notin info.userDefinedTypes

FatalFaultAt(v) == (IsLeaf(v) /\ ReadFails(v)) \/ TypeMissing(v)

ReadErrorKindAt(location) ==
    CASE location = "stack" -> "ReadErrorStack"
      [] location = "storage" -> "ReadErrorStorage"
      [] location = "definition" -> "UnsupportedConstantError"
      [] location = "nowhere" -> "UnusedImmutableError"
      [] OTHER -> "ReadErrorBytes"

IsError(r) == r.kind = "error" /\ "error" \in DOMAIN r

IsValue(r) == r.kind = "value" /\ "value" \in DOMAIN r

---------------------------------------------------------------------------
(* C1 *)

---------------------------------------------------------------------------
(* The faults of a leaf, stated on the raw words *)

\* the first word of the node (read only where the node's words are readable)
WordAt(v) == state[v.ptr.start].word

\* the padding region of w does not hold the pattern its type expects
BadPadding(type, w) ==
    LET n == ByteSize(type)
    IN  CASE type.typeClass \in {"int", "fixed"} ->
                (w \div Pow(n)) #
                    (IF 2 * (w % Pow(n)) >= Pow(n) THEN Pow(WordBytes - n) - 1 ELSE 0)
          [] type.typeClass = "bytes" -> w % Pow(WordBytes - n) # 0
          [] type.typeClass = "function" -> w % Pow(WordBytes - 2) # 0
          [] OTHER -> w >= Pow(n)

\* the padding of the words of a leaf is invalid
BadPaddingAt(v) ==
    IF v.type.typeClass = "function" /\ v.ptr.location = "stack"
    THEN state[v.ptr.start].word >= ByteBase \/ state[v.ptr.start + 1].word >= ByteBase
    ELSE BadPadding(v.type, WordAt(v))

PaddingErrorKind(v) ==
    CASE v.type.typeClass = "uint" -> "UintPaddingError"
      [] v.type.typeClass = "int" -> "IntPaddingError"
      [] v.type.typeClass = "bool" -> "BoolPaddingError"
      [] v.type.typeClass = "bytes" -> "BytesPaddingError"
      [] v.type.typeClass = "address" -> "AddressPaddingError"
      [] v.type.typeClass = "fixed" -> "FixedPaddingError"
      [] v.type.typeClass = "ufixed" -> "UfixedPaddingError"
      [] v.type.typeClass = "enum" -> "EnumPaddingError"
      [] v.type.typeClass = "contract" -> "ContractPaddingError"
      [] v.ptr.location = "stack" -> "FunctionExternalStackPaddingError"
      [] OTHER -> "FunctionExternalNonStackPaddingError"

EnumMissing(v) == v.type.typeClass = "enum" /\ v.type.id \notin info.userDefinedTypes

\* the byte of a bool or an enum
LowByte(v) == WordAt(v) % ByteBase

OutOfRange(v) ==
    \/ v.type.typeClass = "bool" /\ LowByte(v) >= 2
    \/ v.type.typeClass = "enum" /\ LowByte(v) >= Len(EnumOptions(v.type.id))

\* a fault other than a read error occurs at a leaf whose words are readable
LocalFaultAt(v) ==
    /\ IsLeaf(v)
    /\ ~ReadFails(v)
    /\ \/ EnumMissing(v)
       \/ info.paddingMode = "default" /\ BadPaddingAt(v)
       \/ OutOfRange(v)

Corrupted(v) == FatalFaultAt(v) \/ LocalFaultAt(v)

\* the state with every word outside the node replaced by the cell c
ElsewhereReplaced(v, c) ==
    [i \in DOMAIN state |->
        IF i \in v.ptr.start .. (v.ptr.start + v.ptr.length - 1) THEN state[i] ELSE c]

---------------------------------------------------------------------------
(* C2 *)

\* the faults that are not of the fatal families are errors of the node's own
\* category, at the node where they occur, in a tree that is returned
LocalFaultsEmbedded ==
    LET visits == TreeVisits
    IN  /\ result # NoResult => (IsValue(result) \/ IsError(result))
        /\ \A k \in DOMAIN visits :
              LET v == visits[k]
              IN  /\ LocalFaultAt(v)
                        => /\ IsError(v.result)
                           /\ v.result.error.kind \in CategoryError(v.type)
                  /\ (IsError(v.result) /\ v.result.error.kind \notin ErrorForThrowing)
                        => /\ LocalFaultAt(v)
                           /\ v.result.error.kind \in CategoryError(v.type)

\* the Result of a node is the one its own words give, whatever the words of
\* the other nodes hold, and a container whose definition is known is a value
NodesDecodeOnTheirOwn ==
    LET visits == TreeVisits
    IN  \A k \in DOMAIN visits :
           LET v == visits[k]
           IN  /\ \A c \in SampleCells :
                     v.result = Decode(v.type, v.ptr, ElsewhereReplaced(v, c), info)
               /\ (~IsLeaf(v) /\ ~TypeMissing(v)) => IsValue(v.result)

---------------------------------------------------------------------------
(* C3 *)

\* the node of member i of a struct node
MemberVisit(v, i) ==
    [type |-> v.type.memberTypes[i].type, ptr |-> MemberPointer(v.type, v.ptr, i),
     result |-> v.result.value[i].value]

\* C3: a struct whose definition is available decodes to a value that lists its
\* members by name in order; a member is an error exactly when it is corrupted
\* and a value otherwise, so a struct with one corrupted field is a value whose
\* corrupted field is the sole error.
C3_ChildErrorsDoNotEscalate ==
    LET visits == TreeVisits IN \A k \in DOMAIN visits :
       LET v == visits[k]
       IN  (~IsLeaf(v) /\ ~TypeMissing(v))
              => /\ IsValue(v.result)
                 /\ Len(v.result.value) = Len(v.type.memberTypes)
                 /\ \A i \in DOMAIN v.type.memberTypes :
                       /\ v.result.value[i].name = v.type.memberTypes[i].name
                       /\ IsError(MemberVisit(v, i).result) <=> Corrupted(MemberVisit(v, i))
                       /\ IsValue(MemberVisit(v, i).result) <=> ~Corrupted(MemberVisit(v, i))

\* a struct of three fields of which exactly one has a corrupted word
C3_Witness ==
    /\ dataType = AccountType
    /\ IsValue(result)
    /\ Cardinality({i \in 1 .. 3 : Corrupted(MemberVisit(TreeVisits[1], i))}) = 1
    /\ \E i \in 1 .. 3 :
          /\ LocalFaultAt(MemberVisit(TreeVisits[1], i))
          /\ IsError(result.value[i].value)
          /\ \A j \in (1 .. 3) \ {i} : IsValue(result.value[j].value)

---------------------------------------------------------------------------
(* C4 *)

\* C4: a struct of three fields read from storage, one field of which (such as
\* balance) meets a storage read error, is still a value of three fields: the
\* unreadable field is an error carrying ReadErrorStorage with the range of its
\* slot, and the other fields decode as their own words say.
C4_PartialStructOnStorageReadError ==
    (/\ dataType = AccountType
     /\ pointer.location = "storage"
     /\ ~TypeMissing(TreeVisits[1]))
       => /\ IsValue(result)
          /\ Len(result.value) = 3
          /\ result.value[2].name = "balance"
          /\ \A i \in 1 .. 3 :
                LET member == result.value[i].value
                    slot == pointer.start + i - 1
                IN  IF ~state[slot].readable
                    THEN /\ IsError(member)
                         /\ member.type = AccountType.memberTypes[i].type
                         /\ member.error.kind = "ReadErrorStorage"
                         /\ "range" \in DOMAIN member.error
                         /\ member.error.range.from = [slot |-> slot, index |-> 0]
                         /\ member.error.range.to =
                               [slot |-> slot, index |-> WordBytes - 1]
                    ELSE /\ IsError(member) => member.error.kind \notin ReadError
                         /\ ~LocalFaultAt(MemberVisit(TreeVisits[1], i)) => IsValue(member)

\* balance is unreadable in storage and the two other fields are decoded
C4_Witness ==
    /\ dataType = AccountType
    /\ pointer.location = "storage"
    /\ IsValue(result)
    /\ ~state[2].readable
    /\ IsError(result.value[2].value)
    /\ IsValue(result.value[1].value)
    /\ IsValue(result.value[3].value)

---------------------------------------------------------------------------
(* C5 *)

\* C5: every Result at every depth of a decoded tree is either a value (kind
\* "value", with a value and no error) or an error (kind "error", with one
\* error its ErrorResult type admits and no value), and carries the type
\* descriptor that was being decoded at that node.
C5_EveryNodeTaggedAndTyped ==
    LET visits == TreeVisits
    IN  \A k \in DOMAIN visits :
           LET v == visits[k]
               r == v.result
           IN  /\ r.kind \in {"value", "error"}
               /\ "type" \in DOMAIN r
               /\ r.type = v.type
               /\ r.kind = "value" => ("value" \in DOMAIN r /\ "error" \notin DOMAIN r)
               /\ r.kind = "error"
                     => /\ "error" \in DOMAIN r
                        /\ "value" \notin DOMAIN r
                        /\ ErrorResultAdmits(v.type, r.error.kind)

\* a tree of three levels with an error node at the third level
C5_Witness ==
    /\ dataType = HolderType
    /\ IsValue(result)
    /\ IsValue(result.value[2].value)
    /\ IsError(result.value[2].value.value[2].value)
    /\ result.value[2].value.value[2].value.type = EnumType("Single")

---------------------------------------------------------------------------
(* C6 *)

\* some bit of the padding region of the words of a leaf is set
NonzeroPaddingAt(v) ==
    LET n == ByteSize(v.type)
    IN  CASE v.type.typeClass = "function" /\ v.ptr.location = "stack" ->
                \/ state[v.ptr.start].word \div ByteBase # 0
                \/ state[v.ptr.start + 1].word \div ByteBase # 0
          [] v.type.typeClass = "function" -> WordAt(v) % Pow(WordBytes - 2) # 0
          [] v.type.typeClass = "bytes" -> WordAt(v) % Pow(WordBytes - n) # 0
          [] OTHER -> WordAt(v) \div Pow(n) # 0

ExpectedPaddingType(type) ==
    CASE type.typeClass \in {"int", "fixed"} -> "signed"
      [] type.typeClass \in {"bytes", "function"} -> "right"
      [] OTHER -> "left"

\* the error is the padding error of the leaf's category and carries its raw words
IsPaddingErrorOf(v, e) ==
    /\ e.kind = PaddingErrorKind(v)
    /\ IF e.kind = "FunctionExternalStackPaddingError"
       THEN /\ e.rawAddress = ToHexString(state[v.ptr.start].word, WordBytes)
            /\ e.rawSelector = ToHexString(state[v.ptr.start + 1].word, WordBytes)
       ELSE /\ e.raw = ToHexString(WordAt(v), WordBytes)
            /\ Len(e.raw) = WordBytes
            /\ e.paddingType = ExpectedPaddingType(v.type)

\* C6 as stated: a word with nonzero bits in its padding region always gives
\* the padding error of its type's category and never a value.
C6_NonzeroPaddingIsAlwaysAnError ==
    LET visits == TreeVisits
    IN  \A k \in DOMAIN visits :
           LET v == visits[k]
           IN  (IsLeaf(v) /\ ~ReadFails(v) /\ NonzeroPaddingAt(v))
                  => (IsError(v.result) /\ v.result.error.kind = PaddingErrorKind(v))

\* C6 as amended: where padding is checked, a word of a fixed-width type whose
\* padding region does not hold the expected pattern (zeros, or the sign
\* extension of a signed type) gives the padding error of the type's category,
\* carrying the raw hex word and the padding type, and never a value; for an
\* enum the type definition has to be available.
C6_BadPaddingWhereChecked ==
    LET visits == TreeVisits
    IN  \A k \in DOMAIN visits :
           LET v == visits[k]
           IN  (/\ IsLeaf(v)
                /\ ~ReadFails(v)
                /\ ~EnumMissing(v)
                /\ info.paddingMode = "default"
                /\ BadPaddingAt(v))
                  => (IsError(v.result) /\ IsPaddingErrorOf(v, v.result.error))

\* a negative signed integer whose padding is not its sign extension
C6_Witness ==
    /\ dataType = IntType(8)
    /\ info.paddingMode = "default"
    /\ state[1].readable
    /\ 2 * (state[1].word % ByteBase) >= ByteBase
    /\ state[1].word \div ByteBase = 1
    /\ IsError(result)
    /\ result.error.kind = "IntPaddingError"

---------------------------------------------------------------------------
(* C7 *)

\* the word 0x00...01 with its highest byte set to 01
HighBitWord == Pow(WordBytes - 1) + 1

IsBoolValue(r, b) == IsValue(r) /\ r.value = [asBoolean |-> b]

\* the error carries the number n in the configured representation
CarriesRaw(e, n) ==
    IF info.integerType = "BN"
    THEN "rawAsBN" \in DOMAIN e /\ "rawAsString" \notin DOMAIN e /\ e.rawAsBN = n
    ELSE "rawAsString" \in DOMAIN e /\ "rawAsBN" \notin DOMAIN e
            /\ e.rawAsString = ToString(n)

---------------------------------------------------------------------------
(* C8 *)

IsEnumMember(r, name, n) ==
    /\ IsValue(r)
    /\ r.value.name = name
    /\ IF info.integerType = "BN"
       THEN r.value = [name |-> name, numericAsBN |-> n]
       ELSE r.value = [name |-> name, numericAsString |-> ToString(n)]

IsEnumOutOfRange(r, type, n) ==
    /\ IsError(r)
    /\ r.error.kind = "EnumOutOfRangeError"
    /\ "type" \in DOMAIN r.error
    /\ r.error.type = type
    /\ CarriesRaw(r.error, n)

\* C8 as stated: with the definition available, a raw ordinal at or above the
\* member count is always an EnumOutOfRangeError carrying that ordinal and the
\* type, and an ordinal below it is the named member.
C8_OrdinalAloneDecides ==
    LET visits == TreeVisits
    IN  \A k \in DOMAIN visits :
           LET v == visits[k]
               ordinal == WordAt(v)
               options == EnumOptions(v.type.id)
           IN  (v.type.typeClass = "enum" /\ ~ReadFails(v) /\ ~EnumMissing(v))
                  => IF ordinal >= Len(options)
                     THEN IsEnumOutOfRange(v.result, v.type, ordinal)
                     ELSE IsEnumMember(v.result, options[ordinal + 1], ordinal)

\* C8 as amended: with the definition available and the padding bytes of the
\* raw word zero, an ordinal at or above the member count is an
\* EnumOutOfRangeError carrying exactly that ordinal and the enum type, and an
\* ordinal below the member count is the named member.
C8_OrdinalOfAPaddedWord ==
    LET visits == TreeVisits
    IN  \A k \in DOMAIN visits :
           LET v == visits[k]
               ordinal == WordAt(v)
               options == EnumOptions(v.type.id)
           IN  (/\ v.type.typeClass = "enum"
                /\ ~ReadFails(v)
                /\ ~EnumMissing(v)
                /\ ordinal < ByteBase)
                  => IF ordinal >= Len(options)
                     THEN IsEnumOutOfRange(v.result, v.type, ordinal)
                     ELSE IsEnumMember(v.result, options[ordinal + 1], ordinal)

\* an ordinal equal to the member count of an enum of two members
C8_Witness ==
    /\ dataType = EnumType("Choice")
    /\ state[1].readable
    /\ state[1].word = Len(EnumOptions("Choice"))
    /\ "Choice" \in info.userDefinedTypes
    /\ IsError(result)
    /\ result.error.kind = "EnumOutOfRangeError"

---------------------------------------------------------------------------
(* C9 *)

\* C9: when the definition of an enum cannot be located, every raw word that
\* is read, in range or out of range, well padded or not, decodes to an error
\* with EnumNotFoundDecodingError carrying the type and the raw number; never
\* to a value and never to an out-of-range or padding error.
C9_EnumNotFoundComesFirst ==
    LET visits == TreeVisits
    IN  \A k \in DOMAIN visits :
           LET v == visits[k]
           IN  (v.type.typeClass = "enum" /\ EnumMissing(v))
                  => /\ IsError(v.result)
                     /\ ~ReadFails(v)
                           => /\ v.result.error.kind = "EnumNotFoundDecodingError"
                              /\ v.result.error.type = v.type
                              /\ CarriesRaw(v.result.error, WordAt(v))

\* an ordinal that would be in range, decoded without the definition
C9_Witness ==
    /\ dataType = EnumType("Choice")
    /\ state[1].readable
    /\ state[1].word = 1
    /\ "Choice" \notin info.userDefinedTypes
    /\ IsError(result)
    /\ result.error.kind = "EnumNotFoundDecodingError"

---------------------------------------------------------------------------
(* C10 *)

\* the address and the selector the words of an external function pointer hold
AddressAt(v) ==
    IF v.ptr.location = "stack"
    THEN state[v.ptr.start].word % ByteBase
    ELSE WordAt(v) \div Pow(WordBytes - 1)

SelectorAt(v) ==
    IF v.ptr.location = "stack"
    THEN state[v.ptr.start + 1].word % ByteBase
    ELSE (WordAt(v) \div Pow(WordBytes - 2)) % ByteBase

InRegistry(address) == address \in DOMAIN info.contracts

Declares(address, selector) == selector \in info.contracts[address].selectors

\* C10: an external function pointer that is read and passes the padding check
\* resolves to exactly one of three kinds: known exactly when the address is in
\* the registry and its contract declares the selector, invalid exactly when
\* the address is in the registry and no function has the selector, unknown
\* exactly when the address is in no entry of the registry.
C10_ExternalFunctionResolution ==
    LET visits == TreeVisits
    IN  \A k \in DOMAIN visits :
           LET v == visits[k]
               a == AddressAt(v)
               f == SelectorAt(v)
           IN  (/\ v.type.typeClass = "function"
                /\ ~ReadFails(v)
                /\ ~(info.paddingMode = "default" /\ BadPaddingAt(v)))
                  => /\ IsValue(v.result)
                     /\ v.result.value.kind \in {"known", "invalid", "unknown"}
                     /\ v.result.value.kind = "known"
                           <=> (InRegistry(a) /\ Declares(a, f))
                     /\ v.result.value.kind = "invalid"
                           <=> (InRegistry(a) /\ ~Declares(a, f))
                     /\ v.result.value.kind = "unknown" <=> ~InRegistry(a)
                     /\ v.result.value.contract.kind =
                           (IF InRegistry(a) THEN "known" ELSE "unknown")

\* an address in no entry of a registry whose contracts declare the selector
C10_Witness ==
    /\ dataType = FunctionExternalType
    /\ ~ReadFails(TreeVisits[1])
    /\ ~BadPaddingAt(TreeVisits[1])
    /\ DOMAIN info.contracts = {1, 2}
    /\ AddressAt(TreeVisits[1]) = 0
    /\ \A a \in DOMAIN info.contracts : Declares(a, SelectorAt(TreeVisits[1]))
    /\ IsValue(result)
    /\ result.value.kind = "unknown"

---------------------------------------------------------------------------
(* C11 *)

\* C11: failing to resolve an external function pointer is never a decode
\* failure: whatever the registry holds, a pointer that is read and is well
\* padded decodes to a Result of kind value, of one of the three kinds, and the
\* value carries the raw selector as a hex string in all three.
C11_SelectorAlwaysCarried ==
    LET visits == TreeVisits
    IN  \A k \in DOMAIN visits :
           LET v == visits[k]
           IN  (/\ v.type.typeClass = "function"
                /\ v.type.visibility = "external"
                /\ ~ReadFails(v)
                /\ ~BadPaddingAt(v))
                  => /\ IsValue(v.result)
                     /\ v.result.type = v.type
                     /\ v.result.value.kind \in {"known", "invalid", "unknown"}
                     /\ "selector" \in DOMAIN v.result.value
                     /\ v.result.value.selector = <<SelectorAt(v)>>

\* a pointer into a known contract that declares no function of the selector
C11_Witness ==
    /\ dataType = FunctionExternalType
    /\ ~ReadFails(TreeVisits[1])
    /\ ~BadPaddingAt(TreeVisits[1])
    /\ InRegistry(AddressAt(TreeVisits[1]))
    /\ IsValue(result)
    /\ result.value.kind = "invalid"
    /\ result.value.selector = <<SelectorAt(TreeVisits[1])>>

---------------------------------------------------------------------------
(* Internal function pointers, stated on the raw word *)

IsInternalFunction(v) ==
    v.type.typeClass = "function" /\ v.type.visibility = "internal"

\* the program counters the low bytes of the word hold
DeployedPcAt(v) == WordAt(v) % ByteBase

ConstructorPcAt(v) == (WordAt(v) \div ByteBase) % ByteBase

\* the word is read and a program counter pair is taken from it
HasPcPair(v) ==
    /\ IsInternalFunction(v)
    /\ ~ReadFails(v)
    /\ ~(info.paddingMode = "default" /\ WordAt(v) \div (ByteBase * ByteBase) # 0)

IsCanonicalDefault(deployedPc, constructorPc) ==
    \/ deployedPc = 0 /\ constructorPc = 0
    \/ deployedPc = ByteBase - 1 /\ constructorPc = ByteBase - 1

JumpTableAvailable == info.internalFunctionsTable.available

Resolves(deployedPc) == deployedPc \in DOMAIN info.internalFunctionsTable.entries

\* the fields every internal function value and structural error carries
PairAndContext(kind, v) ==
    [kind |-> kind, context |-> ContractType(info.currentContext.id),
     deployedProgramCounter |-> DeployedPcAt(v),
     constructorProgramCounter |-> ConstructorPcAt(v)]

StructuralFaults ==
    {"MalformedInternalFunctionError", "DeployedFunctionInConstructorError",
     "NoSuchInternalFunctionError"}

---------------------------------------------------------------------------
(* C12 *)

\* C12 as stated: a program counter pair equal to a canonical default (all
\* zero, or the fixed nonzero pair) always decodes to a value of kind
\* exception carrying the pair, never to an error.
C12_DefaultPairIsAlwaysException ==
    LET visits == TreeVisits
    IN  \A k \in DOMAIN visits :
           LET v == visits[k]
           IN  (HasPcPair(v) /\ IsCanonicalDefault(DeployedPcAt(v), ConstructorPcAt(v)))
                  => (IsValue(v.result) /\ v.result.value = PairAndContext("exception", v))

\* C12 as amended: where the environment supplies jump-destination
\* information, a program counter pair equal to a canonical default decodes to
\* a value of kind exception carrying the pair and the context, never to an
\* error; without that information it is a value of kind unknown, still never
\* an error.
C12_DefaultPairIsException ==
    LET visits == TreeVisits
    IN  \A k \in DOMAIN visits :
           LET v == visits[k]
           IN  (HasPcPair(v) /\ IsCanonicalDefault(DeployedPcAt(v), ConstructorPcAt(v)))
                  => /\ IsValue(v.result)
                     /\ v.result.type = v.type
                     /\ v.result.value =
                           PairAndContext(IF JumpTableAvailable THEN "exception"
                                          ELSE "unknown", v)

\* the nonzero default pair, read from memory with a jump table at hand
C12_Witness ==
    /\ dataType = FunctionInternalType
    /\ pointer.location = "memory"
    /\ HasPcPair(TreeVisits[1])
    /\ JumpTableAvailable
    /\ DeployedPcAt(TreeVisits[1]) # 0
    /\ IsCanonicalDefault(DeployedPcAt(TreeVisits[1]), ConstructorPcAt(TreeVisits[1]))
    /\ Resolves(DeployedPcAt(TreeVisits[1]))
    /\ IsValue(result)
    /\ result.value.kind = "exception"

---------------------------------------------------------------------------
(* C13 *)

\* the fault of a pair that is no default and does not resolve
ExpectedFault(v) ==
    IF DeployedPcAt(v) = 0 /\ ConstructorPcAt(v) # 0
    THEN "MalformedInternalFunctionError"
    ELSE IF ConstructorPcAt(v) = 0 /\ info.currentContext.isConstructor
    THEN "DeployedFunctionInConstructorError"
    ELSE "NoSuchInternalFunctionError"

\* C13: a program counter pair that is no canonical default and does not
\* resolve against the jump-destination table decodes to exactly one of three
\* errors, fixed by the pair and the context: malformed when the deployed PC
\* is zero and the constructor PC is not; else deployed-function-in-constructor
\* when the pair is deployed-style and the context is a constructor; else
\* no-such-function.  The error carries the context and the pair.
C13_UnresolvedPairFaults ==
    LET visits == TreeVisits
    IN  \A k \in DOMAIN visits :
           LET v == visits[k]
           IN  (/\ HasPcPair(v)
                /\ JumpTableAvailable
                /\ ~IsCanonicalDefault(DeployedPcAt(v), ConstructorPcAt(v))
                /\ ~Resolves(DeployedPcAt(v)))
                  => /\ IsError(v.result)
                     /\ v.result.type = v.type
                     /\ v.result.error.kind \in StructuralFaults
                     /\ v.result.error = PairAndContext(ExpectedFault(v), v)

\* a deployed-style pair met in a constructor context
C13_Witness ==
    /\ dataType = FunctionInternalType
    /\ HasPcPair(TreeVisits[1])
    /\ JumpTableAvailable
    /\ info.currentContext.isConstructor
    /\ DeployedPcAt(TreeVisits[1]) # 0
    /\ ConstructorPcAt(TreeVisits[1]) = 0
    /\ ~Resolves(DeployedPcAt(TreeVisits[1]))
    /\ IsError(result)
    /\ result.error.kind = "DeployedFunctionInConstructorError"

---------------------------------------------------------------------------
(* C14 *)

\* C14: when the environment supplies no jump-destination information, every
\* program counter pair, a default, a resolvable or a faulty one, decodes to a
\* value of kind unknown carrying only the pair and the context, and no
\* internal function pointer decodes to one of the three structural errors.
C14_NoJumpTableIsUnknown ==
    LET visits == TreeVisits
    IN  \A k \in DOMAIN visits :
           LET v == visits[k]
           IN  (IsInternalFunction(v) /\ ~JumpTableAvailable)
                  => /\ IsError(v.result) => v.result.error.kind \notin StructuralFaults
                     /\ HasPcPair(v)
                           => /\ IsValue(v.result)
                              /\ v.result.value = PairAndContext("unknown", v)

\* a pair that would be malformed, decoded without a jump table
C14_Witness ==
    /\ dataType = FunctionInternalType
    /\ HasPcPair(TreeVisits[1])
    /\ ~JumpTableAvailable
    /\ DeployedPcAt(TreeVisits[1]) = 0
    /\ ConstructorPcAt(TreeVisits[1]) # 0
    /\ IsValue(result)
    /\ result.value.kind = "unknown"

---------------------------------------------------------------------------
(* Mappings, stated on the request *)

ElementaryTypeClasses ==
    {"uint", "int", "bool", "bytes", "address", "string", "fixed", "ufixed",
     "enum", "contract"}

\* the members of the decoded struct that are of a mapping type
MappingMembers ==
    IF dataType.typeClass = "struct" /\ IsValue(result)
    THEN {i \in DOMAIN result.value : result.value[i].value.type.typeClass = "mapping"}
    ELSE {}

\* a mapping result: all its pairs have a value for key, of an elementary type
KeysAreValues(m) ==
    /\ IsValue(m)
    /\ \A j \in DOMAIN m.value :
          /\ DOMAIN m.value[j] = {"key", "value"}
          /\ m.value[j].key.kind = "value"
          /\ "value" \in DOMAIN m.value[j].key
          /\ m.value[j].key.type.typeClass \in ElementaryTypeClasses
          /\ m.value[j].key.type = m.type.keyType
          /\ m.value[j].value.kind \in {"value", "error"}
          /\ m.value[j].value.type = m.type.valueType

\* the pairs of a mapping in storage are those of the known keys, in order
PairsOfKnownKeys(m) ==
    /\ Len(m.value) = Len(info.mappingKeys)
    /\ \A j \in DOMAIN m.value : m.value[j].key = info.mappingKeys[j]

---------------------------------------------------------------------------
(* C15 *)

\* C15: in every decoded mapping value, alone or as a member of a struct,
\* every key of every key/value pair is of kind value and of an elementary
\* type (it is the known key itself); only the value of a pair can be of kind
\* error.
C15_MappingKeysAreValues ==
    /\ dataType.typeClass = "mapping"
          => (KeysAreValues(result) /\ PairsOfKnownKeys(result))
    /\ \A i \in MappingMembers :
          /\ KeysAreValues(result.value[i].value)
          /\ pointer.location = "storage" => PairsOfKnownKeys(result.value[i].value)

\* a mapping with two known keys whose first value is an error
C15_Witness ==
    /\ dataType = BalancesType
    /\ Len(info.mappingKeys) = 2
    /\ IsValue(result)
    /\ IsError(result.value[1].value)
    /\ IsValue(result.value[2].value)
    /\ IsValue(result.value[1].key)

---------------------------------------------------------------------------
(* C20 *)

\* C20: a decoded struct value lists all the fields of the struct in
\* declaration order, and a mapping-typed field is always present: decoded
\* from a location other than storage it is a mapping value with no pairs, not
\* a missing field and not an error.
C20_StructListsEveryField ==
    (dataType.typeClass = "struct" /\ dataType.id \in info.userDefinedTypes)
       => /\ IsValue(result)
          /\ Len(result.value) = Len(dataType.memberTypes)
          /\ \A i \in DOMAIN dataType.memberTypes :
                LET member == dataType.memberTypes[i]
                    pair == result.value[i]
                IN  /\ pair.name = member.name
                    /\ pair.value.type = member.type
                    /\ member.type.typeClass = "mapping"
                          => /\ IsValue(pair.value)
                             /\ pointer.location # "storage" => pair.value.value = <<>>

\* a struct with a mapping member, decoded from memory with keys known
C20_Witness ==
    /\ dataType = LedgerType
    /\ pointer.location = "memory"
    /\ Len(info.mappingKeys) = 2
    /\ IsValue(result)
    /\ Len(result.value) = 2
    /\ result.value[2].name = "balances"
    /\ IsValue(result.value[2].value)
    /\ result.value[2].value.value = <<>>

---------------------------------------------------------------------------
(* Data held by reference, stated on the raw words *)

\* the decoded data of dynamic size with the place of the pointer of each: the
\* datum of the request, and the members of dynamic size of a decoded struct
DynamicNodes ==
    LET top == <<[type |-> dataType, head |-> pointer.start, result |-> result]>>
        RECURSIVE Members(_)
        Members(i) ==
            IF i = 0 THEN <<>>
            ELSE IF IsDynamic(dataType.memberTypes[i].type)
            THEN Members(i - 1) \o
                    <<[type |-> dataType.memberTypes[i].type,
                       head |-> state[pointer.start].word + MemberOffset(dataType, i),
                       result |-> result.value[i].value]>>
            ELSE Members(i - 1)
    IN  IF result = NoResult \/ ~IsDynamic(dataType) THEN <<>>
        ELSE IF dataType.typeClass = "struct" /\ IsValue(result)
        THEN top \o Members(Len(dataType.memberTypes))
        ELSE top

Readable(i) == i \in DOMAIN state /\ state[i].readable

\* a word holds more than a number does
Unrepresentable(n) == n >= Pow(WordBytes - 1)

\* the pointer of a node, and the length at the place it points to
PointerOf(n) == state[n.head].word

HasLength(n) ==
    /\ n.type.typeClass # "struct"
    /\ Readable(n.head)
    /\ ~Unrepresentable(PointerOf(n))
    /\ Readable(PointerOf(n))

LengthOf(n) == state[PointerOf(n)].word

\* the error is the not-implemented error of a quantity and carries it whole
IsNotImplemented(r, kind, field, quantity) ==
    /\ IsError(r)
    /\ "value" \notin DOMAIN r
    /\ r.error.kind = kind
    /\ IF info.integerType = "BN"
       THEN r.error[field \o "AsBN"] = quantity
       ELSE r.error[field \o "AsString"] = ToString(quantity)

\* the number of elements, characters or bytes of a decoded value
SizeOf(n) ==
    CASE n.type.typeClass = "array" -> Len(n.result.value)
      [] n.type.typeClass = "string" -> Len(n.result.value.asString)
      [] OTHER -> Len(n.result.value.asHex)

---------------------------------------------------------------------------
(* C16 *)

\* C16: a datum of dynamic size whose pointer or length is more than a number
\* holds decodes, as a whole, to an error with the not-implemented error of
\* the quantity (overlarge pointer, overlong length) carrying the quantity
\* untruncated; no elements are enumerated, and a value always has exactly as
\* many elements as its length word says.
C16_OversizeIsNotImplemented ==
    LET nodes == DynamicNodes
    IN  \A k \in DOMAIN nodes :
           LET n == nodes[k]
           IN  /\ Readable(n.head) /\ Unrepresentable(PointerOf(n))
                     => IsNotImplemented(n.result,
                                         "OverlargePointersNotImplementedError",
                                         "pointer", PointerOf(n))
               /\ HasLength(n) /\ Unrepresentable(LengthOf(n))
                     => IsNotImplemented(n.result,
                                         "OverlongArraysAndStringsNotImplementedError",
                                         "length", LengthOf(n))
               /\ n.type.typeClass # "struct" /\ IsValue(n.result)
                     => /\ HasLength(n)
                        /\ ~Unrepresentable(LengthOf(n))
                        /\ SizeOf(n) = LengthOf(n)

\* an array whose length word is the largest a word holds
C16_Witness ==
    /\ dataType = ArrayType(UintType(8))
    /\ state[1] = Cell(2)
    /\ state[2] = Cell(Pow(WordBytes) - 1)
    /\ IsError(result)
    /\ result.error.kind = "OverlongArraysAndStringsNotImplementedError"

---------------------------------------------------------------------------
(* C17 *)

BNFields == {"asBN", "numericAsBN", "rawAsBN", "lengthAsBN", "pointerAsBN"}

StringFields ==
    {"asString", "numericAsString", "rawAsString", "lengthAsString",
     "pointerAsString"}

\* the fields of the other representation than the configured one
OtherFields == IF info.integerType = "BN" THEN StringFields ELSE BNFields

\* the node itself (not its children) holds no number in the other representation
NodeUsesConfigured(r) ==
    IF IsError(r) THEN DOMAIN r.error \cap OtherFields = {}
    ELSE r.type.typeClass \in {"uint", "int", "enum"}
            => DOMAIN r.value \cap OtherFields = {}

\* every node of the tree under r does
RECURSIVE TreeUsesConfigured(_)
TreeUsesConfigured(r) ==
    /\ NodeUsesConfigured(r)
    /\ (IsValue(r) /\ r.type.typeClass = "array")
          => \A i \in DOMAIN r.value : TreeUsesConfigured(r.value[i])
    /\ (IsValue(r) /\ r.type.typeClass = "struct")
          => \A i \in DOMAIN r.value : TreeUsesConfigured(r.value[i].value)

\* C17: the numeric representation is one choice for a whole decode: every
\* value and error of the tree that carries a raw integer, a length or a
\* pointer carries it in the configured representation, and no node of the
\* tree uses the other one.
C17_OneRepresentationPerTree == result # NoResult => TreeUsesConfigured(result)

---------------------------------------------------------------------------
(* C18 *)

\* the least and the greatest number of an n-byte two's complement integer
MinSigned(n) == 0 - (Pow(n) \div 2)

MaxSigned(n) == ((Pow(n) + 1) \div 2) - 1

\* the valid values of an elementary type of fixed size, each as a number
\* (bytes and addresses as the number their bytes spell, a bool as 0 or 1, an
\* enum as the ordinal of a member)
ValidValues(type) ==
    CASE type.typeClass \in {"uint", "ufixed"} -> 0 .. (Pow(type.bits \div 8) - 1)
      [] type.typeClass \in {"int", "fixed"} ->
            MinSigned(type.bits \div 8) .. MaxSigned(type.bits \div 8)
      [] type.typeClass = "bool" -> {0, 1}
      [] type.typeClass = "bytes" -> 0 .. (Pow(type.length) - 1)
      [] type.typeClass = "enum" -> 0 .. (Len(EnumOptions(type.id)) - 1)
      [] OTHER -> 0 .. (ByteBase - 1)

\* the word that encodes a value: numbers are extended to the left, with
\* zeros or with their sign, and bytes are padded with zeros to the right
EncodeWord(type, x) ==
    CASE type.typeClass \in {"int", "fixed"} ->
            IF x < 0 THEN Pow(WordBytes) + x ELSE x
      [] type.typeClass = "bytes" -> x * Pow(WordBytes - type.length)
      [] OTHER -> x

\* the n bytes that spell x, the most significant first
RECURSIVE HexOf(_, _)
HexOf(x, n) ==
    IF n = 0 THEN <<>> ELSE Append(HexOf(x \div ByteBase, n - 1), x % ByteBase)

\* a number in the configured representation
Numeric(bnField, stringField, x) ==
    IF info.integerType = "BN" THEN bnField :> x ELSE stringField :> ToString(x)

\* the value of the format that stands for x
OriginalValue(type, x) ==
    CASE type.typeClass \in {"uint", "int"} -> Numeric("asBN", "asString", x)
      [] type.typeClass = "bool" -> [asBoolean |-> x = 1]
      [] type.typeClass = "bytes" -> [asHex |-> HexOf(x, type.length)]
      [] type.typeClass = "address" -> [asAddress |-> HexOf(x, 1)]
      [] type.typeClass \in {"ufixed", "fixed"} ->
            [asBig |-> [unscaled |-> x, places |-> type.places]]
      [] OTHER -> [name |-> EnumOptions(type.id)[x + 1]]
                     @@ Numeric("numericAsBN", "numericAsString", x)

\* the words that encode a string or bytestring of the bytes of x: the
\* pointer, the length, the bytes padded to a word
EncodeBytes(x, length) ==
    <<Cell(2), Cell(length), Cell(x * Pow(WordBytes - length))>>

\* a word of fixed size decodes back to the value it encodes
FixedSizeRoundTrip ==
    (/\ dataType.typeClass \in
           {"uint", "int", "bool", "bytes", "address", "ufixed", "fixed", "enum"}
     /\ dataType.typeClass = "bytes" => dataType.kind = "static"
     /\ dataType.typeClass = "enum" => dataType.id \in info.userDefinedTypes
     /\ pointer.location # "nowhere"
     /\ state[1].readable)
       => \A x \in ValidValues(dataType) :
             state[1].word = EncodeWord(dataType, x)
                => result = [type |-> dataType, kind |-> "value",
                             value |-> OriginalValue(dataType, x)]

\* the address of a contract decodes back to the address
ContractRoundTrip ==
    (dataType.typeClass = "contract" /\ state[1].readable)
       => \A x \in ValidValues(dataType) :
             state[1].word = EncodeWord(dataType, x)
                => /\ IsValue(result)
                   /\ result.type = dataType
                   /\ result.value.address = HexOf(x, 1)

\* the bytes of a string or bytestring decode back to the bytes
DynamicSizeRoundTrip ==
    (dataType.typeClass = "string"
        \/ (dataType.typeClass = "bytes" /\ dataType.kind = "dynamic"))
       => \A length \in 0 .. WordBytes :
             \A x \in 0 .. (Pow(length) - 1) :
                state = EncodeBytes(x, length)
                   => result = [type |-> dataType, kind |-> "value",
                                value |-> IF dataType.typeClass = "string"
                                          THEN [kind |-> "valid",
                                                asString |-> HexOf(x, length)]
                                          ELSE [asHex |-> HexOf(x, length)]]

\* C18: for every supported elementary type and every valid in-range value of
\* it, decoding the encoding of the value gives a Result of kind value equal
\* to the original value, with no error in it.
C18_RoundTrip == FixedSizeRoundTrip /\ ContractRoundTrip /\ DynamicSizeRoundTrip

\* the least int8, sign-extended over the word, decoded with strings for numbers
C18_Witness ==
    /\ dataType = IntType(8)
    /\ info.integerType = "string"
    /\ state[1].readable
    /\ state[1].word = EncodeWord(dataType, MinSigned(1))
    /\ state[1].word = Pow(WordBytes) + MinSigned(1)
    /\ pointer.location = "memory"
    /\ IsValue(result)

---------------------------------------------------------------------------
(* C19 *)

PaddingErrors ==
    {"UintPaddingError", "IntPaddingError", "BoolPaddingError", "BytesPaddingError",
     "AddressPaddingError", "FixedPaddingError", "UfixedPaddingError",
     "EnumPaddingError", "ContractPaddingError",
     "FunctionExternalNonStackPaddingError", "FunctionExternalStackPaddingError",
     "FunctionInternalPaddingError"}

---------------------------------------------------------------------------
(* The decode procedure: event logs *)

TupleType(memberTypes) == [typeClass |-> "tuple", memberTypes |-> memberTypes]

\* ReferenceType of types.ts: arrays, strings, bytestrings and structs
IsReferenceType(type) ==
    \/ type.typeClass \in {"array", "string", "struct"}
    \/ type.typeClass = "bytes" /\ type.kind = "dynamic"

EventParameter(name, type, indexed) ==
    [name |-> name, type |-> type, indexed |-> indexed]

EventType(name, parameters) ==
    [typeClass |-> "event", name |-> name, parameters |-> parameters]

\* decodeTopic: an indexed parameter of reference or tuple type cannot be
\* decoded from its topic and is the error that carries the topic; any other
\* is decoded from the topic as a word.  The topics are part of the log: no
\* read error exists for them (ReadError of errors.ts)
DecodeTopic(type, ptr, st, inf) ==
    IF IsReferenceType(type) \/ type.typeClass = "tuple"
    THEN ErrorResult(type,
            IndexedReferenceTypeError(type,
                                      ToHexString(st[ptr.start].word, WordBytes)))
    ELSE DecodeBasic(type, ptr, st, inf)

\* the number of indexed parameters among the first i
RECURSIVE IndexedUpTo(_, _)
IndexedUpTo(parameters, i) ==
    IF i = 0 THEN 0
    ELSE IndexedUpTo(parameters, i - 1) + (IF parameters[i].indexed THEN 1 ELSE 0)

\* where parameter i of an event is held: the indexed ones in the topics, in
\* order (the cells before the data), the others in the data, in order
ArgumentPointer(event, i) ==
    LET parameters == event.parameters
        topics == IndexedUpTo(parameters, Len(parameters))
    IN  IF parameters[i].indexed
        THEN [location |-> "eventtopic", start |-> IndexedUpTo(parameters, i),
              length |-> 1]
        ELSE [location |-> "eventdata",
              start |-> topics + (i - IndexedUpTo(parameters, i)), length |-> 1]

\* decode of a log: one argument per parameter, each decoded on its own
DecodeEvent(event, st, inf) ==
    [kind |-> "event",
     arguments |->
        [i \in 1 .. Len(event.parameters) |->
            LET p == event.parameters[i]
            IN  [name |-> p.name, indexed |-> p.indexed,
                 value |-> IF p.indexed
                           THEN DecodeTopic(p.type, ArgumentPointer(event, i), st, inf)
                           ELSE Decode(p.type, ArgumentPointer(event, i), st, inf)]]]

---------------------------------------------------------------------------
(* Decode sessions of event logs *)

\* the types an indexed parameter is declared with
IndexedTypes ==
    {UintType(8), AddressType, StringType, BytesTypeDynamic, ArrayType(UintType(8)),
     AccountType, TupleType(<<[name |-> "a", type |-> UintType(8)]>>)}

\* Logged(T indexed subject, uint8 amount, bool indexed flag)
LoggedEvent(type) ==
    EventType("Logged",
              <<EventParameter("subject", type, TRUE),
                EventParameter("amount", UintType(8), FALSE),
                EventParameter("flag", BoolType, TRUE)>>)

\* a log of the event: its two topics, then one word of data
DecodeEventRequest ==
    /\ result = NoResult
    /\ \E type \in IndexedTypes, subject \in Word, flag \in 0 .. ByteBase,
          amount \in SampleCells, integerType \in IntegerTypes,
          paddingMode \in PaddingModes :
          LET event == LoggedEvent(type)
              st == <<Cell(subject), Cell(flag), amount>>
              inf == Info(integerType, paddingMode, AllTypeIds, NoContracts)
          IN  /\ dataType' = event
              /\ pointer' = [location |-> "eventdata", start |-> 3, length |-> 1]
              /\ state' = st
              /\ info' = inf
              /\ result' = DecodeEvent(event, st, inf)
              /\ UNCHANGED <<invocations, outsideCodec>>

NextEvent == DecodeEventRequest

SpecEvent == Init /\ [][NextEvent]_vars

---------------------------------------------------------------------------
(* Event logs, stated on the raw words *)

IsEventResult == result # NoResult /\ dataType.typeClass = "event"

\* the types that one topic word cannot hold
NotDecodableFromTopic(type) ==
    type.typeClass \in {"array", "string", "struct", "tuple"}
        \/ (type.typeClass = "bytes" /\ type.kind = "dynamic")

\* argument i of the log as a node: its type, where it is held, its Result
ArgumentVisit(i) ==
    [type |-> dataType.parameters[i].type,
     ptr |-> [location |-> IF dataType.parameters[i].indexed
                           THEN "eventtopic" ELSE "eventdata",
              start |-> CASE i = 1 -> 1 [] i = 2 -> 3 [] OTHER -> 2,
              length |-> 1],
     result |-> result.arguments[i].value]

IsIndexedReferenceError(r, type, w) ==
    /\ IsError(r)
    /\ r.type = type
    /\ r.error = [kind |-> "IndexedReferenceTypeError", type |-> type,
                  raw |-> HexOf(w, WordBytes)]

---------------------------------------------------------------------------
(* C21 *)

\* C21: an indexed log parameter of reference or tuple type always decodes to
\* an ErrorResult with IndexedReferenceTypeError carrying the type and the raw
\* topic word, never to a value; the error stays at that argument: the log
\* still has one argument per parameter and each of the others is a value
\* exactly when its own word has no fault, the error it is being of its own
\* category or a read error, never IndexedReferenceTypeError.
C21_IndexedReferenceIsError ==
    IsEventResult =>
        /\ DOMAIN result.arguments = DOMAIN dataType.parameters
        /\ \A i \in DOMAIN dataType.parameters :
              LET p == dataType.parameters[i]
                  v == ArgumentVisit(i)
              IN  /\ result.arguments[i].name = p.name
                  /\ IF p.indexed /\ NotDecodableFromTopic(p.type)
                     THEN /\ IsIndexedReferenceError(v.result, p.type, WordAt(v))
                          /\ ~IsValue(v.result)
                     ELSE /\ IsValue(v.result) <=> ~Corrupted(v)
                          /\ IsError(v.result) <=> Corrupted(v)
                          /\ IsError(v.result)
                                => v.result.error.kind \in
                                      ReadError \cup CategoryError(v.type)

\* the topic of an indexed string is not zero: the argument is the error that
\* carries it, and the two other arguments of the log are values
C21_Witness ==
    /\ IsEventResult
    /\ dataType.parameters[1].type = StringType
    /\ state[1].word = Pow(WordBytes) - 1
    /\ IsIndexedReferenceError(result.arguments[1].value, StringType, state[1].word)
    /\ IsValue(result.arguments[2].value)
    /\ IsValue(result.arguments[3].value)

---------------------------------------------------------------------------
(* The decode procedure: ABI-typed data, in strict mode or not *)

\* what the caller of a decode that was stopped gets: no Result tree
NoDecoding == [kind |-> "nodecoding"]

\* an internal-use error is in flight from the node or from a node below it
RECURSIVE Stopped(_)
Stopped(r) ==
    \/ r.kind = "stopped"
    \/ /\ r.kind = "value"
       /\ r.type.typeClass = "array"
       /\ \E i \in DOMAIN r.value : Stopped(r.value[i])
    \/ /\ r.kind = "value"
       /\ r.type.typeClass = "struct"
       /\ \E i \in DOMAIN r.value : Stopped(r.value[i].value)

\* a top-level decode of ABI-typed data: an internal-use error thrown at any
\* depth ends the decode and is consumed here
DecodeAbi(type, ptr, st, inf) ==
    LET tree == Decode(type, ptr, st, inf)
    IN  IF Stopped(tree) THEN NoDecoding ELSE tree

---------------------------------------------------------------------------
(* Decode sessions of ABI-typed data *)

\* a struct that holds an internal function pointer
CallbackType ==
    StructType("Callback",
               <<[name |-> "id", type |-> UintType(8)],
                 [name |-> "run", type |-> FunctionInternalType]>>)

InfoAbi(integerType, strictAbiMode) ==
    [integerType |-> integerType, paddingMode |-> "default",
     userDefinedTypes |-> {"Note", "Callback"}, contracts |-> NoContracts,
     currentContext |-> [id |-> "Token", isConstructor |-> FALSE],
     internalFunctionsTable |-> [available |-> FALSE, entries |-> NoEntries],
     strictAbiMode |-> strictAbiMode]

AbiRequest(type, ptr, st, inf) ==
    /\ dataType' = type
    /\ pointer' = ptr
    /\ state' = st
    /\ info' = inf
    /\ result' = DecodeAbi(type, ptr, st, inf)
    /\ UNCHANGED <<invocations, outsideCodec>>

\* an array of uint8 in calldata: the pointer, then the length and two elements
DecodeAbiArrayRequest ==
    /\ result = NoResult
    /\ \E offset \in PointerCells(2), length \in LengthCells,
          elements \in [1 .. 2 -> SampleCells], integerType \in IntegerTypes,
          strictAbiMode \in BOOLEAN :
          AbiRequest(ArrayType(UintType(8)), Pointer("calldata", 1),
                     <<offset, length>> \o elements,
                     InfoAbi(integerType, strictAbiMode))

\* a string or a bytestring: the pointer, then the length and one word of bytes
DecodeAbiStringRequest ==
    /\ result = NoResult
    /\ \E type \in {StringType, BytesTypeDynamic}, offset \in PointerCells(2),
          length \in LengthCells, data \in SampleCells,
          integerType \in IntegerTypes, strictAbiMode \in BOOLEAN :
          AbiRequest(type, Pointer("calldata", 1), <<offset, length, data>>,
                     InfoAbi(integerType, strictAbiMode))

\* a struct of dynamic size: the length of its text is one level down
DecodeAbiNoteRequest ==
    /\ result = NoResult
    /\ \E offset \in PointerCells(2), id \in SampleCells, text \in PointerCells(4),
          length \in LengthCells, data \in SampleCells,
          integerType \in IntegerTypes, strictAbiMode \in BOOLEAN :
          AbiRequest(NoteType, Pointer("calldata", 1),
                     <<offset, id, text, length, data>>,
                     InfoAbi(integerType, strictAbiMode))

\* a struct with an internal function pointer, decoded as if ABI-typed
DecodeAbiCallbackRequest ==
    /\ result = NoResult
    /\ \E id \in SampleCells, run \in Cells, integerType \in IntegerTypes,
          strictAbiMode \in BOOLEAN :
          AbiRequest(CallbackType, Pointer("calldata", 2), <<id, run>>,
                     InfoAbi(integerType, strictAbiMode))

NextAbi ==
    \/ DecodeAbiArrayRequest
    \/ DecodeAbiStringRequest
    \/ DecodeAbiNoteRequest
    \/ DecodeAbiCallbackRequest

SpecAbi == Init /\ [][NextAbi]_vars

---------------------------------------------------------------------------
(* C22 *)

\* the node is a value or an error and its error is not of internal use
NodeSurfacesNoInternalUse(r) ==
    /\ IsValue(r) \/ IsError(r)
    /\ IsError(r)
          => r.error.kind \notin
                {"OverlongArrayOrStringStrictModeError", "InternalFunctionInABIError"}

\* every node of the tree under r, at any depth
RECURSIVE TreeSurfacesNoInternalUse(_)
TreeSurfacesNoInternalUse(r) ==
    /\ NodeSurfacesNoInternalUse(r)
    /\ (IsValue(r) /\ r.type.typeClass = "array")
          => \A i \in DOMAIN r.value : TreeSurfacesNoInternalUse(r.value[i])
    /\ (IsValue(r) /\ r.type.typeClass = "struct")
          => \A i \in DOMAIN r.value : TreeSurfacesNoInternalUse(r.value[i].value)

\* the length word of the request's string, bytestring or array is read and
\* is more than the bytes of the data
TopLengthOverlong ==
    /\ dataType.typeClass \in {"array", "string", "bytes"}
    /\ Readable(1)
    /\ state[1].word = 2
    /\ Readable(2)
    /\ state[2].word > Len(state) * WordBytes

\* C22: no Result returned to the caller of a decode holds, at any depth, an
\* error of kind OverlongArrayOrStringStrictModeError or
\* InternalFunctionInABIError; such an error arises in strict mode only and
\* ends the decode inside the engine, the caller getting no Result tree.
C22_InternalUseErrorsNeverSurface ==
    result # NoResult =>
        /\ result # NoDecoding => TreeSurfacesNoInternalUse(result)
        /\ result = NoDecoding => info.strictAbiMode
        /\ (info.strictAbiMode /\ TopLengthOverlong) => result = NoDecoding
        /\ (info.strictAbiMode /\ dataType = CallbackType) => result = NoDecoding

\* in strict mode the length of a string is more than the data holds: the
\* strict-mode length error arose and the caller gets no tree
C22_Witness ==
    /\ dataType = StringType
    /\ info.strictAbiMode
    /\ TopLengthOverlong
    /\ result = NoDecoding

---------------------------------------------------------------------------
(* Decode invocations in flight at the same time *)

\* a slip: one read capability, that of the first invocation in flight, is
\* shared by all
OwnState_Shared(invs, k) ==
    invs[CHOOSE j \in Invocation : invs[j].phase # "idle"].state

\* the read capability of an invocation: the state it was given

OwnState(invs, k) == invs[k].state

\* the cells of the inputs of a concurrent decode: a word, a word with a bad
\* padding byte, and one that cannot be read
FewCells == {Cell(1), Cell(ByteBase), UnreadableCell}

\* an invocation is made: a struct, its pointer, read capability and metadata
Invoke(k) ==
    /\ invocations[k] = Idle
    /\ \E type \in StructTypes, st \in [1 .. 3 -> FewCells],
          ids \in {AllTypeIds, AllTypeIds \ {"Inner"}} :
          invocations' =
             [invocations EXCEPT ![k] =
                 [phase |-> "decoding", type |-> type,
                  pointer |-> Pointer("storage", 3), state |-> st,
                  info |-> Info("BN", "default", ids, NoContracts),
                  members |-> <<>>, result |-> NoResult]]
    /\ UNCHANGED <<dataType, pointer, state, info, result, outsideCodec>>

\* the invocation decodes its next member from its own read capability and
\* puts the Result after those it has
DecodeNextMember(k) ==
    LET inv == invocations[k]
        i == Len(inv.members) + 1
    IN  /\ inv.phase = "decoding"
        /\ i <= Len(inv.type.memberTypes)
        /\ invocations' =
              [invocations EXCEPT ![k].members =
                  Append(inv.members,
                      NameValuePair(inv.type.memberTypes[i].name,
                          Decode(inv.type.memberTypes[i].type,
                                 MemberPointer(inv.type, inv.pointer, i),
                                 OwnState(invocations, k), inv.info)))]
        /\ UNCHANGED <<dataType, pointer, state, info, result, outsideCodec>>

\* the tree is assembled from the members and returned to the caller
Return(k) ==
    LET inv == invocations[k]
        tree == StructValue(inv.type, inv.members)
    IN  /\ inv.phase = "decoding"
        /\ Len(inv.members) = Len(inv.type.memberTypes)
        /\ invocations' = [invocations EXCEPT ![k].phase = "returned",
                                               ![k].result = tree]
        /\ dataType' = inv.type
        /\ pointer' = inv.pointer
        /\ state' = inv.state
        /\ info' = inv.info
        /\ result' = tree
        /\ UNCHANGED outsideCodec

NextConcurrent == \E k \in Invocation : Invoke(k) \/ DecodeNextMember(k) \/ Return(k)

SpecConcurrent == Init /\ [][NextConcurrent]_vars

---------------------------------------------------------------------------
(* C23 *)

\* the Result tree the invocation's decode returns when it runs alone
RunAlone(inv) == Decode(inv.type, inv.pointer, inv.state, inv.info)

SameInputs(a, b) ==
    /\ a.type = b.type
    /\ a.pointer = b.pointer
    /\ a.state = b.state
    /\ a.info = b.info

---------------------------------------------------------------------------
(* Package.publish (core/lib/package.js), as core/test/ethpm.js expects it *)

\* the contents an ethpm.json is written with
EthpmJsonFiles ==
    UNION {[fields -> {"pkg", "1"}] :
              fields \in SUBSET {"package_name", "version", "description"}}

\* the fields a config passed to publish may supply (config.with({...}))
ConfigFields ==
    UNION {[fields -> {"pkg", "1"}] : fields \in SUBSET {"package_name", "version"}}

\* a slip: a field the file lacks is taken from the config
RequiredFieldsPresent_WithConfig(file, config) ==
    {"package_name", "version"} \subseteq (DOMAIN file \cup DOMAIN config)

\* the ethpm.json of the project names the package and its version
RequiredFieldsPresent(file, config) ==
    {"package_name", "version"} \subseteq DOMAIN file

\* the error of a publish that found the ethpm.json invalid; the message is
\* held as its sentences
InvalidConfigurationError ==
    [kind |-> "error",
     message |-> <<"Invalid ethpm.json configuration detected.">>]

\* the package a publish returns: its name and version are those of the file
PublishedPackage(file) ==
    [kind |-> "package", manifest_version |-> "2",
     meta |-> [f \in DOMAIN file \ {"package_name", "version"} |-> file[f]]]
        @@ [f \in DOMAIN file \cap {"package_name", "version"} |-> file[f]]

\* fs.writeFileSync(path.join(config.working_directory, "ethpm.json"), ...)
WriteEthpmJson ==
    /\ \E file \in EthpmJsonFiles :
          /\ file # ethpmJson
          /\ ethpmJson' = file
    /\ UNCHANGED <<published, outsidePackage>>

\* Package.publish(config): the ethpm.json on disk is validated first
Publish ==
    /\ \E config \in ConfigFields :
          published' =
             IF RequiredFieldsPresent(ethpmJson, config)
             THEN PublishedPackage(ethpmJson) @@ [config |-> config]
             ELSE InvalidConfigurationError @@ [config |-> config]
    /\ UNCHANGED <<ethpmJson, outsidePackage>>

NextPackage == WriteEthpmJson \/ Publish

SpecPackage == Init /\ [][NextPackage]_vars

---------------------------------------------------------------------------
(* C24 *)

\* the message of the error includes the sentence
MessageIncludes(error, sentence) ==
    \E i \in DOMAIN error.message : error.message[i] = sentence

---------------------------------------------------------------------------
(* Project.initialize (@truffle/db) *)

\* the calls of Project.initialize a session makes
MaxInitializeCalls == 3

\* Input<"projects">
ProjectInputs == [directory : {"/app", "/lib", "/box"}]

\* the id of a resource: a hash of its input
IdOf(collection, input) == <<collection, input.directory>>

\* a slip: the project is added as a new resource at every call
GenerateInitializeLoad_AlwaysNew(resources, input) ==
    LET resource == [id |-> <<"projects", input.directory, Cardinality(resources)>>,
                     directory |-> input.directory]
    IN  [resources |-> resources \cup {resource}, project |-> [id |-> resource.id]]

\* generateInitializeLoad: the project resource of the input is added to the
\* resources unless it is there, and its IdObject is returned
GenerateInitializeLoad(resources, input) ==
    LET resource == [id |-> IdOf("projects", input), directory |-> input.directory]
    IN  [resources |-> resources \cup {resource}, project |-> [id |-> resource.id]]

\* new Project({ run, forProvider, project }); run is bound to the db
NewProject(name, project) == [db |-> name, project |-> project]

\* get id()
ProjectId(p) == p.project.id

\* Project.initialize({ db, project: input })
Initialize ==
    /\ Len(projects) < MaxInitializeCalls
    /\ \E name \in DbNames, input \in ProjectInputs :
          LET load == GenerateInitializeLoad(db[name], input)
          IN  /\ db' = [db EXCEPT ![name] = load.resources]
              /\ projects' = Append(projects,
                                    [input |-> input,
                                     returned |-> NewProject(name, load.project)])
    /\ UNCHANGED outsideDb

NextDb == Initialize

SpecDb == Init /\ [][NextDb]_vars

---------------------------------------------------------------------------
(* C25 *)

\* the calls of initialize made with a db and an input
CallsWith(name, input) ==
    {i \in DOMAIN projects :
        projects[i].returned.db = name /\ projects[i].input = input}

---------------------------------------------------------------------------
(* TezosAdapter (interface-adapter/lib/adapter/tezos) *)

StringOf(value) == [kind |-> "string", value |-> value]

ArrayOf(value) == [kind |-> "array", value |-> value]

\* a value that an if takes for true
Truthy(v) ==
    \/ v.kind \in {"array", "object"}
    \/ (v.kind = "string" /\ v.value # "")
    \/ (v.kind = "number" /\ v.value # 0)

\* Array.prototype.join(" ")
RECURSIVE Join(_)
Join(words) ==
    IF Len(words) = 0 THEN ""
    ELSE IF Len(words) = 1 THEN words[1]
    ELSE words[1] \o " " \o Join(Tail(words))

\* the secret key injected for the test/development environment
DevelopmentSecretKey == "edsk3QoqBuvdamxouPhin7swCvkQNgq4jP5KZPbwWNnwdZpSpJiEbq"

\* the signers of taquito: the one a new toolkit has, and the ones importKey
\* makes of a faucet account and of a secret key
NoopSigner == [kind |-> "NoopSigner"]

FaucetSigner(email, password, mnemonic, secret) ==
    [kind |-> "InMemorySigner", email |-> email, password |-> password,
     mnemonic |-> mnemonic, secret |-> secret]

SecretKeySigner(secretKey) == [kind |-> "InMemorySigner", secretKey |-> secretKey]

\* new TezosToolkit(rpc); object tells one toolkit object from another
TezosToolkit(object, rpc) == [object |-> object, rpc |-> rpc, signer |-> NoopSigner]

\* a slip: the signer is a field of the instance, and setProvider passes none
ToolkitSetProvider_OwnSigner(tezos, rpc, newSigner) == [tezos EXCEPT !.rpc = rpc]

\* TezosToolkit.setProvider({ rpc, signer, config }): a signer that is
\* undefined leaves the signer of the toolkit as it is
ToolkitSetProvider(tezos, rpc, newSigner) ==
    [tezos EXCEPT !.rpc = rpc,
                  !.signer = IF newSigner = Undefined THEN @ ELSE newSigner]

\* a slip: host || provider taken for a provider without host
CurrentHost_Unset(provider) == Undefined

\* const { host } = provider; const currentHost = host ?? provider;
CurrentHost(provider) ==
    IF "host" \in DOMAIN provider /\ provider.host # Undefined
    THEN provider.host ELSE provider

\* a slip: the toolkit is made anew at every setProvider
NeedsToolkit_Always(adapter) == TRUE

\* if (!this.tezos)
NeedsToolkit(adapter) == "tezos" \notin DOMAIN adapter

\* setProvider({ provider, config }) on an adapter object; later tells a call
\* made after the constructor's
SetProviderOn(adapter, provider, staticSigner) ==
    LET currentHost == CurrentHost(provider)
        created == IF NeedsToolkit(adapter) THEN adapter.created + 1
                   ELSE adapter.created
        tezos == IF NeedsToolkit(adapter) THEN TezosToolkit(created, currentHost)
                 ELSE adapter.tezos
    IN  [constructed |-> TRUE, created |-> created, provider |-> provider,
         later |-> adapter.constructed,
         tezos |-> ToolkitSetProvider(tezos, currentHost, staticSigner),
         call |-> adapter.call]

\* no call of setWallet or getAccounts has been made on the adapter
NoCall == [phase |-> "none"]

\* constructor({ provider, config }) { this.setProvider({ provider, config }); }
Constructor(a, provider) ==
    /\ ~adapters[a].constructed
    /\ adapters' =
          [adapters EXCEPT ![a] =
              SetProviderOn([constructed |-> FALSE, created |-> 0, call |-> NoCall],
                            provider, signer)]
    /\ UNCHANGED <<signer, outsideTezos>>

SetProvider(a, provider) ==
    /\ adapters[a].constructed
    /\ adapters' = [adapters EXCEPT ![a] = SetProviderOn(@, provider, signer)]
    /\ UNCHANGED <<signer, outsideTezos>>

\* the errors setWallet throws
FaucetAccountInvalid(network) ==
    [kind |-> "error",
     message |-> "Faucet account invalid or incorrectly imported in truffle config file (config.networks["
                    \o network \o "])."]

SecretKeyInvalid_AsFaucet(network) ==
    [kind |-> "error",
     message |-> "Faucet account invalid or incorrectly imported in truffle config file (config.networks["
                    \o network \o "])."]

SecretKeyInvalid(network) ==
    [kind |-> "error",
     message |-> "Secret key invalid or incorrectly imported in truffle config file (config.networks["
                    \o network \o "].secretKey)."]

NoFaucetAccountOrSecretKey(network) ==
    [kind |-> "error",
     message |-> "No faucet account or secret key detected in truffle config file (config.networks["
                    \o network \o "])."]

\* a slip: the development key is injected on every network
SecretKeyOf_OnAnyNetwork(config) ==
    LET secretKey == config.networks[config.network].secretKey
    IN  IF config.networks.test.develop /\ ~Truthy(secretKey)
        THEN StringOf(DevelopmentSecretKey) ELSE secretKey

\* let { mnemonic, secretKey } = networks[network]; the secretKey after the
\* injection for the test/development environment
SecretKeyOf(config) ==
    LET secretKey == config.networks[config.network].secretKey
    IN  IF config.network = "test" /\ config.networks.test.develop /\ ~Truthy(secretKey)
        THEN StringOf(DevelopmentSecretKey) ELSE secretKey

\* the key import setWallet goes for, or none: the arguments of importKey
\* and the error of the catch around it
ImportOf(config) ==
    LET entry == config.networks[config.network]
        mnemonic == entry.mnemonic
        secretKey == SecretKeyOf(config)
    IN  IF Truthy(mnemonic)
        THEN [branch |-> "mnemonic",
              imported |-> FaucetSigner(entry.email, entry.password,
                                        IF mnemonic.kind = "array"
                                        THEN Join(mnemonic.value) ELSE mnemonic.value,
                                        entry.secret),
              error |-> FaucetAccountInvalid(config.network)]
        ELSE IF Truthy(secretKey)
        THEN [branch |-> "secretKey", imported |-> SecretKeySigner(secretKey.value),
              error |-> SecretKeyInvalid(config.network)]
        ELSE [branch |-> "none", error |-> NoFaucetAccountOrSecretKey(config.network)]

\* the truffle configs setWallet is called with
NetworkEntry(mnemonic, secretKey) ==
    [mnemonic |-> mnemonic, secretKey |-> secretKey, email |-> "e@x", password |-> "pw",
     secret |-> "s"]

Config(network, mnemonic, secretKey, develop) ==
    [network |-> network,
     networks |-> [n \in {"test", network} |->
                      IF n = "test"
                      THEN (IF network = "test" THEN NetworkEntry(mnemonic, secretKey)
                            ELSE NetworkEntry(Undefined, Undefined))
                               @@ [develop |-> develop]
                      ELSE NetworkEntry(mnemonic, secretKey)]]

Configs ==
    {Config(network, mnemonic, secretKey, develop) :
        network \in {"test", "main"},
        mnemonic \in {Undefined, StringOf("m1 m2"), ArrayOf(<<"w1", "w2">>)},
        secretKey \in {Undefined, StringOf("edsk1")},
        develop \in BOOLEAN}

\* the providers setProvider is called with: with a host, and a host itself
Providers == {[host |-> [url |-> "a"]], [host |-> [url |-> "b"]], [url |-> "c"]}

\* setWallet(config) up to its await; without a credential it has thrown
CallSetWallet(a, method, config) ==
    LET import == ImportOf(config)
    IN  /\ adapters[a].constructed
        /\ adapters[a].call.phase # "importing"
        /\ adapters' =
              [adapters EXCEPT ![a].call =
                  IF import.branch = "none"
                  THEN [phase |-> "rejected", method |-> method, config |-> config,
                        error |-> import.error]
                  ELSE [phase |-> "importing", method |-> method, config |-> config]]
        /\ UNCHANGED <<signer, outsideTezos>>

SetWallet(a, configs) == \E config \in configs : CallSetWallet(a, "setWallet", config)

\* getAccounts(config): await this.setWallet(config), then the account of
\* the signer of the toolkit
GetAccounts(a, configs) ==
    \E config \in configs : CallSetWallet(a, "getAccounts", config)

\* await importKey(this.tezos, ...) settles: the key is imported into the
\* toolkit and TezosAdapter.signer = this.tezos.signer
ImportKeyResolves(a) ==
    LET call == adapters[a].call
        import == ImportOf(call.config)
        tezos == ToolkitSetProvider(adapters[a].tezos, adapters[a].tezos.rpc,
                                    import.imported)
    IN  /\ adapters[a].constructed
        /\ call.phase = "importing"
        /\ adapters' =
              [adapters EXCEPT
                  ![a].tezos = tezos,
                  ![a].call =
                      [phase |-> "resolved", method |-> call.method,
                       config |-> call.config]
                         @@ (IF call.method = "getAccounts"
                             THEN [accounts |-> <<tezos.signer>>] ELSE <<>>)]
        /\ signer' = tezos.signer
        /\ UNCHANGED outsideTezos

\* importKey fails: the catch throws the error of the branch; what importKey
\* has done to the toolkit before it failed is its own business
ImportKeyRejects(a) ==
    LET call == adapters[a].call
        import == ImportOf(call.config)
    IN  /\ adapters[a].constructed
        /\ call.phase = "importing"
        /\ \E left \in {adapters[a].tezos.signer, import.imported} :
              adapters' =
                 [adapters EXCEPT
                     ![a].tezos.signer = left,
                     ![a].call =
                         [phase |-> "rejected", method |-> call.method,
                          config |-> call.config, error |-> import.error]]
        /\ UNCHANGED <<signer, outsideTezos>>

\* the wallets of a session of several adapters: a secret key, a faucet
\* account, and a network entry without either
Wallets ==
    {Config("main", Undefined, StringOf("edsk1"), FALSE),
     Config("main", StringOf("m1 m2"), Undefined, FALSE),
     Config("main", Undefined, Undefined, FALSE)}

\* several adapters, their calls in flight at the same time
NextTezos ==
    \E a \in Adapter :
       \/ \E provider \in Providers : Constructor(a, provider)
       \/ \E provider \in Providers : SetProvider(a, provider)
       \/ SetWallet(a, Wallets)
       \/ GetAccounts(a, Wallets)
       \/ ImportKeyResolves(a)
       \/ ImportKeyRejects(a)

SpecTezos == Init /\ [][NextTezos]_vars

\* one adapter, given every config
NextTezosWallet ==
    \/ \E provider \in Providers : Constructor("first", provider)
    \/ \E provider \in Providers : SetProvider("first", provider)
    \/ SetWallet("first", Configs)
    \/ GetAccounts("first", Configs)
    \/ ImportKeyResolves("first")
    \/ ImportKeyRejects("first")

SpecTezosWallet == Init /\ [][NextTezosWallet]_vars

---------------------------------------------------------------------------
(* The wallet of a config, stated on the config *)

EntryOf(config) == config.networks[config.network]

MnemonicPresent(config) == EntryOf(config).mnemonic # Undefined

SecretKeyGiven(config) == EntryOf(config).secretKey # Undefined

\* the built-in development key stands in for the secret key
DevelopmentKeyStandsIn(config) ==
    /\ config.network = "test"
    /\ config.networks.test.develop
    /\ ~SecretKeyGiven(config)

\* the signer of the credentials the fixed order picks
ExpectedSigner(config) ==
    LET entry == EntryOf(config)
    IN  IF MnemonicPresent(config)
        THEN [kind |-> "InMemorySigner", email |-> "e@x", password |-> "pw",
              secret |-> "s",
              mnemonic |-> IF entry.mnemonic.kind = "array" THEN "w1 w2" ELSE "m1 m2"]
        ELSE IF SecretKeyGiven(config)
        THEN [kind |-> "InMemorySigner", secretKey |-> "edsk1"]
        ELSE [kind |-> "InMemorySigner",
              secretKey |-> "edsk3QoqBuvdamxouPhin7swCvkQNgq4jP5KZPbwWNnwdZpSpJiEbq"]

HasCredential(config) ==
    MnemonicPresent(config) \/ SecretKeyGiven(config) \/ DevelopmentKeyStandsIn(config)

ErrorMessage(text, network, end) ==
    text \o " in truffle config file (config.networks[" \o network \o end

ExpectedError(config) ==
    [kind |-> "error",
     message |->
        IF MnemonicPresent(config)
        THEN ErrorMessage("Faucet account invalid or incorrectly imported",
                          config.network, "]).")
        ELSE IF HasCredential(config)
        THEN ErrorMessage("Secret key invalid or incorrectly imported",
                          config.network, "].secretKey).")
        ELSE ErrorMessage("No faucet account or secret key detected",
                          config.network, "]).")]

---------------------------------------------------------------------------
(* C26 *)

\* C26: setWallet picks the credentials of config.networks[network] in a fixed
\* order: a mnemonic that is present is imported (an array joined with spaces,
\* with email, password and secret) and a secretKey is ignored; otherwise a
\* secretKey is imported; otherwise it throws 'No faucet account or secret key
\* detected'.  The built-in development key stands in for the secretKey only
\* when network is 'test', networks.test.develop is set and no secretKey is
\* given, and then setWallet never throws that error.
C26_CredentialOrder ==
    \A a \in Adapter :
       (adapters[a].constructed /\ adapters[a].call.phase # "none")
          => LET call == adapters[a].call
                 config == call.config
             IN  /\ call.phase = "importing" => HasCredential(config)
                 /\ call.phase = "resolved"
                       => /\ HasCredential(config)
                          /\ signer = ExpectedSigner(config)
                          /\ MnemonicPresent(config) => "secretKey" \notin DOMAIN signer
                          /\ signer.kind = "InMemorySigner"
                 /\ call.phase = "rejected" => call.error = ExpectedError(config)
                 /\ (call.phase = "rejected" /\ ~HasCredential(config))
                       => call.error.message =
                             ErrorMessage("No faucet account or secret key detected",
                                          config.network, "]).")
                 /\ ~HasCredential(config) => call.phase = "rejected"
                 /\ (config.networks.test.develop /\ config.network # "test"
                        /\ ~MnemonicPresent(config) /\ ~SecretKeyGiven(config))
                       => call.phase = "rejected"

\* a config with an array mnemonic and a secretKey: the mnemonic was imported,
\* joined with spaces
C26_Witness ==
    LET call == adapters["first"].call
    IN  /\ adapters["first"].constructed
        /\ call.phase = "resolved"
        /\ EntryOf(call.config).mnemonic.kind = "array"
        /\ SecretKeyGiven(call.config)
        /\ signer.mnemonic = "w1 w2"

---------------------------------------------------------------------------
(* C27 *)

\* the step in which the import of adapter a's call succeeds
ImportSucceeds(a) ==
    /\ adapters[a].constructed
    /\ adapters[a].call.phase = "importing"
    /\ adapters'[a].call.phase = "resolved"

\* the step in which adapter a's call fails
CallFails(a) ==
    /\ adapters[a].constructed
    /\ adapters[a].call.phase # "rejected" \/ adapters'[a].call # adapters[a].call
    /\ adapters'[a].call.phase = "rejected"

StepKeepsSigner ==
    /\ signer' # signer
          => \E a \in Adapter : ImportSucceeds(a) /\ signer' = adapters'[a].tezos.signer
    /\ \A a \in Adapter :
          CallFails(a)
             => /\ signer' = signer
                /\ adapters'[a].call.error = ExpectedError(adapters'[a].call.config)
                /\ "accounts" \notin DOMAIN adapters'[a].call
                /\ adapters'[a].call.method \in {"setWallet", "getAccounts"}

\* C27: the shared signer is replaced only by a successful key import: a
\* setWallet whose import fails throws the 'Faucet account invalid' or the
\* 'Secret key invalid' error naming the network and does not write the
\* signer, and getAccounts, which runs setWallet first, fails the same way
\* and returns no accounts.
C27_SignerReplacedOnlyBySuccessfulImport == [][StepKeepsSigner]_vars

\* a getAccounts whose secret key import failed, on an adapter class that
\* holds the signer of an earlier successful import
C27_Witness ==
    \E a \in Adapter :
       /\ adapters[a].constructed
       /\ adapters[a].call.phase = "rejected"
       /\ adapters[a].call.method = "getAccounts"
       /\ HasCredential(adapters[a].call.config)
       /\ signer # Undefined
       /\ adapters[a].tezos.signer # signer

---------------------------------------------------------------------------
(* C28 *)

\* the host setProvider uses, stated on the provider
HostOf(provider) == IF "host" \in DOMAIN provider THEN provider.host ELSE provider

\* C28: an adapter creates its TezosToolkit at most once: the constructor's
\* setProvider creates it, every later setProvider re-points the same toolkit
\* at the new host, and the host is provider.host, or the provider itself
\* when it has no host.
C28_ToolkitCreatedOnce ==
    [][\A a \in Adapter :
          /\ adapters'[a].constructed
                => /\ adapters'[a].created = 1
                   /\ adapters'[a].tezos.rpc = HostOf(adapters'[a].provider)
          /\ adapters[a].constructed
                => /\ adapters'[a].constructed
                   /\ adapters'[a].tezos.object = adapters[a].tezos.object]_vars

\* a later setProvider has re-pointed the toolkit at a provider without host
C28_Witness ==
    \E a \in Adapter :
       /\ adapters[a].constructed
       /\ adapters[a].later
       /\ "host" \notin DOMAIN adapters[a].provider
       /\ adapters[a].tezos.rpc = adapters[a].provider
       /\ adapters[a].created = 1

---------------------------------------------------------------------------
(* C29 *)

\* a step that can only be a setProvider call on adapter a
SetProviderStep(a) ==
    /\ adapters[a].constructed
    /\ adapters'[a].call = adapters[a].call
    /\ adapters'[a] # adapters[a]

\* C29: the signer is a static of the adapter class: the signer setProvider
\* passes to a toolkit is the one stored by the most recent successful
\* setWallet on any adapter, not the one imported on the adapter setProvider
\* is called on.
C29_SignerSharedByAllAdapters ==
    [][/\ \A a \in Adapter :
             /\ ImportSucceeds(a) => signer' = ExpectedSigner(adapters[a].call.config)
             /\ (SetProviderStep(a) /\ signer # Undefined)
                   => adapters'[a].tezos.signer = signer
             /\ (~adapters[a].constructed /\ adapters'[a].constructed /\ signer # Undefined)
                   => adapters'[a].tezos.signer = signer
       /\ (\A a \in Adapter : ~ImportSucceeds(a)) => signer' = signer]_vars

\* two adapters given different wallets hold the same signer after setProvider
C29_Witness ==
    /\ \A a \in Adapter : adapters[a].constructed /\ adapters[a].call.phase = "resolved"
    /\ ExpectedSigner(adapters["first"].call.config)
          # ExpectedSigner(adapters["second"].call.config)
    /\ adapters["first"].tezos.signer = adapters["second"].tezos.signer
    /\ adapters["first"].tezos.signer = signer
    /\ adapters["first"].later /\ adapters["second"].later

---------------------------------------------------------------------------
(* provision (provisioner/index.js) *)

NumberOf(value) == [kind |-> "number", value |-> value]

ObjectOf(value) == [kind |-> "object", value |-> value]

\* a call made on the abstraction or on its adapter
Call(method, argument) == [method |-> method, argument |-> argument]

\* options.networks[options.network]
NetworkOf(options) ==
    IF options.network.value \in DOMAIN options.networks.value
    THEN options.networks.value[options.network.value] ELSE Undefined

\* if (options.network && options.networks)
SetsNetworkType(options) == Truthy(options.network) /\ Truthy(options.networks)

\* options.networks[options.network].type of an entry that is undefined
ThrowsTypeError(options) == SetsNetworkType(options) /\ NetworkOf(options) = Undefined

\* a slip: the defaults are set whatever the adapter
ExposesWeb3_Always(abs) == TRUE

\* if (abstraction.interfaceAdapter.web3)
ExposesWeb3(abs) == abs.interfaceAdapter.web3

\* if (abstraction.interfaceAdapter.tezos)
ExposesTezos(abs) == abs.interfaceAdapter.tezos

DefaultKeys == <<"from", "gas", "gasPrice">>

\* if (options.provider) abstraction.setProvider({ provider: options.provider })
ProvisionProvider(run, options) ==
    IF Truthy(options.provider)
    THEN [abs |-> [run.abs EXCEPT !.provider = options.provider],
          calls |-> Append(run.calls, Call("setProvider", [provider |-> options.provider]))]
    ELSE run

\* if (options.network_id) abstraction.setNetwork(options.network_id)
ProvisionNetwork(run, options) ==
    IF Truthy(options.network_id)
    THEN [abs |-> [run.abs EXCEPT !.network_id = options.network_id],
          calls |-> Append(run.calls, Call("setNetwork", options.network_id))]
    ELSE run

\* abstraction.setNetworkType(options.networks[options.network].type)
ProvisionNetworkType(run, options) ==
    IF SetsNetworkType(options)
    THEN [abs |-> [run.abs EXCEPT !.networkType = NetworkOf(options).type],
          calls |-> Append(run.calls, Call("setNetworkType", NetworkOf(options).type))]
    ELSE run

\* if (options.ens) abstraction.ens = options.ens
ProvisionEns(run, options) ==
    IF Truthy(options.ens)
    THEN [run EXCEPT !.abs.ens = options.ens]
    ELSE run

\* abstraction.interfaceAdapter.setWallet(options), not awaited
ProvisionWallet(run, options) ==
    IF ExposesTezos(run.abs)
    THEN [abs |-> [run.abs EXCEPT !.interfaceAdapter.wallet = options.network],
          calls |-> Append(run.calls, Call("setWallet", options))]
    ELSE run

\* ["from", "gas", "gasPrice"].forEach(key => ...), from the i-th key on
RECURSIVE ProvisionDefaults(_, _, _)
ProvisionDefaults(run, options, i) ==
    IF i > Len(DefaultKeys) THEN run
    ELSE LET key == DefaultKeys[i]
             obj == [k \in {key} |-> options[key]]
         IN  IF Truthy(options[key])
             THEN ProvisionDefaults(
                     [abs |-> [run.abs EXCEPT !.class_defaults[key] = options[key]],
                      calls |-> Append(run.calls, Call("defaults", obj))],
                     options, i + 1)
             ELSE ProvisionDefaults(run, options, i + 1)

\* provision(abstraction, options): the abstraction as it is left, the calls
\* made, and whether provision returned the abstraction or threw
ProvisionOf(abs, options) ==
    LET start == [abs |-> abs, calls |-> <<>>]
        named == ProvisionNetwork(ProvisionProvider(start, options), options)
    IN  IF ThrowsTypeError(options)
        THEN [abs |-> named.abs, calls |-> named.calls, outcome |-> "thrown",
              error |-> [kind |-> "TypeError"]]
        ELSE LET typed == ProvisionNetworkType(named, options)
                 walleted == ProvisionWallet(ProvisionEns(typed, options), options)
                 done == IF ExposesWeb3(walleted.abs)
                         THEN ProvisionDefaults(walleted, options, 1)
                         ELSE walleted
             IN  [abs |-> done.abs, calls |-> done.calls, outcome |-> "returned",
                  returned |-> "abstraction"]

Networks == ObjectOf([main |-> [type |-> StringOf("tezos")]])

\* options without any of the keys provision reads
NoOptions ==
    [provider |-> Undefined, network_id |-> Undefined, network |-> Undefined,
     networks |-> Undefined, ens |-> Undefined, from |-> Undefined, gas |-> Undefined,
     gasPrice |-> Undefined]

\* options that name a provider, a network id and ens
ConnectionOptions ==
    {[NoOptions EXCEPT !.provider = p, !.network_id = id, !.ens = e] :
        p \in {Undefined, StringOf("http://localhost:8545")},
        id \in {Undefined, NumberOf(5)},
        e \in {Undefined, ObjectOf([enabled |-> TRUE])}}

\* options that name a network, listed in networks or not
NetworkOptions ==
    {[NoOptions EXCEPT !.network = n, !.networks = ns] :
        n \in {Undefined, StringOf("main"), StringOf("ghost")},
        ns \in {Undefined, Networks}}

\* options that name transaction defaults
DefaultsOptions ==
    {[NoOptions EXCEPT !.from = f, !.gas = g, !.gasPrice = gp] :
        f \in {Undefined, StringOf("0xabc")},
        g \in {Undefined, NumberOf(0), NumberOf(100)},
        gp \in {Undefined, NumberOf(1)}}

\* options with every key
AllOptions ==
    {[provider |-> StringOf("http://localhost:7545"), network_id |-> NumberOf(5),
      network |-> n, networks |-> Networks, ens |-> ObjectOf([enabled |-> TRUE]),
      from |-> StringOf("0xabc"), gas |-> NumberOf(100), gasPrice |-> NumberOf(1)] :
        n \in {StringOf("main"), StringOf("ghost")}}

ProvisionOptions == ConnectionOptions \cup NetworkOptions \cup DefaultsOptions \cup AllOptions

\* the caller makes a contract abstraction with its interface adapter
Create(tezos, web3) ==
    /\ abstraction' = NewAbstraction(tezos, web3)
    /\ provisioned' = NotProvisioned
    /\ UNCHANGED outsideProvision

\* provision(abstraction, options)
Provision(options) ==
    LET run == ProvisionOf(abstraction, options)
    IN  /\ abstraction' = run.abs
        /\ provisioned' =
              [options |-> options, calls |-> run.calls, outcome |-> run.outcome]
              @@ (IF run.outcome = "returned"
                  THEN [returned |-> run.returned] ELSE [error |-> run.error])
        /\ UNCHANGED outsideProvision

NextProvision ==
    \/ \E tezos \in BOOLEAN, web3 \in BOOLEAN : Create(tezos, web3)
    \/ \E options \in ProvisionOptions : Provision(options)

SpecProvision == Init /\ [][NextProvision]_vars

---------------------------------------------------------------------------
(* C30 *)

IsSet(value) == value # Undefined

\* truthy, stated on the values the options hold
IsTruthyOption(value) ==
    value \notin {Undefined, NumberOf(0), StringOf("")}

CallsOf(method) ==
    {i \in DOMAIN provisioned'.calls : provisioned'.calls[i].method = method}

\* the step of a call of provision keeps to what the options allow
ProvisionKeepsFrame ==
    LET options == provisioned'.options
        calls == provisioned'.calls
        adapter == abstraction.interfaceAdapter
    IN  /\ provisioned'.outcome = "returned" => provisioned'.returned = "abstraction"
        /\ provisioned'.outcome = "thrown"
              => /\ IsSet(options.network) /\ IsSet(options.networks)
                 /\ options.network.value \notin DOMAIN options.networks.value
        /\ (CallsOf("setProvider") # {} \/ abstraction'.provider # abstraction.provider)
              => /\ IsSet(options.provider)
                 /\ abstraction'.provider = options.provider
        /\ (CallsOf("setNetwork") # {} \/ abstraction'.network_id # abstraction.network_id)
              => /\ IsSet(options.network_id)
                 /\ abstraction'.network_id = options.network_id
        /\ (CallsOf("setNetworkType") # {}
               \/ abstraction'.networkType # abstraction.networkType)
              => /\ IsSet(options.network) /\ IsSet(options.networks)
                 /\ abstraction'.networkType
                       = options.networks.value[options.network.value].type
        /\ abstraction'.ens # abstraction.ens
              => IsSet(options.ens) /\ abstraction'.ens = options.ens
        /\ (CallsOf("setWallet") # {}
               \/ abstraction'.interfaceAdapter # abstraction.interfaceAdapter)
              => /\ adapter.tezos
                 /\ \A i \in CallsOf("setWallet") : calls[i].argument = options
        /\ abstraction'.interfaceAdapter.tezos = adapter.tezos
        /\ abstraction'.interfaceAdapter.web3 = adapter.web3
        /\ \A i \in CallsOf("defaults") :
              /\ adapter.web3
              /\ \E key \in {"from", "gas", "gasPrice"} :
                    /\ calls[i].argument = [k \in {key} |-> options[key]]
                    /\ IsTruthyOption(options[key])
        /\ \A key \in {"from", "gas", "gasPrice"} :
              abstraction'.class_defaults[key] # abstraction.class_defaults[key]
                 => /\ adapter.web3
                    /\ IsTruthyOption(options[key])
                    /\ abstraction'.class_defaults[key] = options[key]
        /\ \A i \in DOMAIN calls :
              calls[i].method
                 \in {"setProvider", "setNetwork", "setNetworkType", "setWallet", "defaults"}
        /\ \A method \in {"setProvider", "setNetwork", "setNetworkType", "setWallet"} :
              Cardinality(CallsOf(method)) <= 1
        /\ ((\A key \in DOMAIN options : ~IsSet(options[key]))
               /\ ~adapter.tezos /\ ~adapter.web3)
              => /\ abstraction' = abstraction
                 /\ calls = <<>>
                 /\ provisioned'.outcome = "returned"

====
